---- MODULE Spec2Model ----
(***************************************************************************)
(* A model of the SciScroll content engine (backend/content_engine.py and  *)
(* the /api/generate and /api/initial routes of backend/server.py):        *)
(* telemetry sanitization, engagement scoring, strategy selection, the     *)
(* media variety tracker, mock and live content assembly and block         *)
(* validation.                                                             *)
(*                                                                         *)
(* Numbers.  Scores are kept in ten-thousandths (the code rounds to four   *)
(* decimals), computed with exact rational arithmetic.  A Python int that  *)
(* no float can hold (10**400, say) is the value BigInt.                   *)
(*                                                                         *)
(* Randomness.  random.shuffle, random.choice, random.sample and uuid4 are *)
(* nondeterministic choices: every action that calls them draws the        *)
(* outcome with \E.                                                        *)
(***************************************************************************)
EXTENDS Integers, Sequences, FiniteSets, TLC

VARIABLES
    tracker,          \* MediaVarietyTracker: [types, queue, last]
    out,              \* the values next_type() has returned so far, in order
    attempts,         \* the rotations the latest next_type() call made
    popped,           \* the local media_type of the latest next_type() call
    time_data,        \* the telemetry as the caller sent it
    td,               \* sanitize_time_data's result
    engagement_score, \* compute_engagement_score's result, in ten-thousandths
    strategy_used,    \* select_strategy's result
    topic_id,         \* the request's node id (slug)
    strategy,         \* the strategy content is assembled under
    visited_nodes,    \* the visited node ids the caller sent
    plan,             \* what the orchestrator answers (live path)
    api_results,      \* what the media provider called for each group gives
    content_blocks,   \* the blocks returned
    next_nodes,       \* the next-node suggestions returned
    graph,            \* the graph the initial route returns
    session_ids,      \* the block ids the earlier calls of the session returned
    validated,        \* the value handed to a validator
    errors,           \* the error list the validator called last returned
    raised,           \* the exception that left the handler, or "none"
    pc,               \* the position of the request being served
    assembly          \* the local variables of the assembly calls running concurrently

trackerVars == <<tracker, out, attempts, popped>>
concurrentVars == <<assembly>>
scoreVars == <<time_data, td, engagement_score, strategy_used>>
requestVars == <<topic_id, strategy, visited_nodes, plan, api_results>>
responseVars == <<content_blocks, next_nodes, graph, session_ids>>

validateVars == <<validated, errors>>

vars == <<trackerVars, scoreVars, requestVars, responseVars, validateVars, raised, pc,
          concurrentVars>>

-----------------------------------------------------------------------------
(* Bounds of the model. *)

\* the longest tracker configuration explored (MEDIA_TYPES has seven kinds)
MaxKinds == 3
\* the number of next_type() calls on one tracker
MaxCalls == 8
\* telemetry explored: go_deeper_clicks up to MaxClicks and
\* sections_in_current_node up to MaxSections
MaxClicks == 2
MaxSections == 3
\* the number of groups generate_content_blocks assembles (num_groups, 4 in
\* the source's default configuration)
NumGroups == 2
\* select_strategy is applied to every score from -ScoreMargin to
\* 10000 + ScoreMargin ten-thousandths
ScoreMargin == 5

-----------------------------------------------------------------------------
(* Media types and role vocabularies. *)

MEDIA_TYPES ==
    <<"unsplash", "wikipedia_image", "wikimedia", "reddit", "xkcd", "meme", "tweet">>

VALID_GROUP_ROLES_TEXT == {"explanation", "caption", "context", "funfact"}

VALID_GROUP_ROLES_MEDIA == {"visual", "diagram", "discussion", "humor", "social"}

VALID_STRATEGIES == {"deeper", "branch", "pivot"}

None == "None"

\* An orchestrator answer is [client, result, keys, groups, next_nodes]:
\* client is "absent" (no client configured), "unavailable" or "available";
\* result is the type of what generate_json returned ("NoneType", "dict",
\* "list"); keys are the keys of a dict result; groups is [kind, items], the
\* type and the items of result["groups"]; next_nodes are the ids of
\* result["next_nodes"].
Plan(client, result, keys, groups_kind, items, next_ids) ==
    [client |-> client, result |-> result, keys |-> keys,
     groups |-> [kind |-> groups_kind, items |-> items], next_nodes |-> next_ids]

\* no orchestrator is configured
NoPlan == Plan("absent", "NoneType", {}, "absent", <<>>, <<>>)

\* no graph was built
NoGraph == [nodes |-> <<>>, edges |-> <<>>]

\* no value was handed to a validator
NoResponse == [isdict |-> FALSE, keys |-> {}]

Range(s) == {s[i] : i \in 1..Len(s)}

-----------------------------------------------------------------------------
(* MediaVarietyTracker *)

\* MediaVarietyTracker.__init__: media_types or MEDIA_TYPES (None and the
\* empty list are both <<>> here: Python's "or" treats them alike)
NewTracker(media_types) ==
    LET types == IF media_types = <<>> THEN MEDIA_TYPES ELSE media_types
    IN  [types |-> types, queue |-> types, last |-> None]

\* the outcomes of random.shuffle on a copy of the list s
Shuffles(s) ==
    {[i \in 1..Len(s) |-> s[p[i]]] : p \in Permutations(1..Len(s))}

\* the loop of next_type with a condition that never holds: the candidate is
\* returned as popped
RotateNever(queue, media_type, last, ntypes, attempts_) ==
    [queue |-> queue, media_type |-> media_type, attempts |-> attempts_]

\* the duplicate-avoidance loop of next_type: while the candidate equals the
\* last emitted kind, more than one kind is configured and fewer than
\* len(types) attempts were made, move it to the back and take the next one
RECURSIVE RotatePastLast(_, _, _, _, _)
RotatePastLast(queue, media_type, last, ntypes, attempts_) ==
    IF media_type = last /\ ntypes > 1 /\ attempts_ < ntypes
    THEN LET q == Append(queue, media_type)
         IN  RotatePastLast(Tail(q), Head(q), last, ntypes, attempts_ + 1)
    ELSE [queue |-> queue, media_type |-> media_type, attempts |-> attempts_]

\* next_type on tracker t; shuffled is what random.shuffle gives when the
\* queue is empty and has to be refilled
NextTypeOf(t, shuffled) ==
    LET q0 == IF t.queue = <<>> THEN shuffled ELSE t.queue
        r  == RotatePastLast(Tail(q0), Head(q0), t.last, Len(t.types), 0)
    IN  [tracker    |-> [types |-> t.types, queue |-> r.queue, last |-> r.media_type],
         media_type |-> r.media_type,
         attempts   |-> r.attempts]

\* the configurations a tracker is built with: the default (no list), the
\* first k kinds of MEDIA_TYPES, and a list that names one kind twice
TrackerConfigs ==
    {<<>>, <<"meme", "meme">>}
        \cup {SubSeq(MEDIA_TYPES, 1, k) : k \in 1..MaxKinds}

-----------------------------------------------------------------------------
(* Telemetry values.  A JSON value is [kind, v]: an int (v), a float (v is   *)
(* the number of halves, so 10001 is 5000.5), an int too large for a float   *)
(* ("bigint"), the floats inf and nan, a string that is no number ("str"),   *)
(* a string of digits ("numstr", v), a list, null, or a key that is absent   *)
(* ("missing").                                                              *)

JInt(n) == [kind |-> "int", v |-> n]
JFloat(halves) == [kind |-> "float", v |-> halves]
JNumStr(n) == [kind |-> "numstr", v |-> n]
JOther(kind) == [kind |-> kind, v |-> 0]

\* a Python int: small (v) or beyond the range of a float (big)
Num(n) == [big |-> FALSE, v |-> n]
BigInt == [big |-> TRUE, v |-> 0]

\* int(val): the value, or the exception int() raises
IntOf(val) ==
    CASE val.kind = "int"    -> [exc |-> "none", value |-> Num(val.v)]
      [] val.kind = "bigint" -> [exc |-> "none", value |-> BigInt]
      [] val.kind = "numstr" -> [exc |-> "none", value |-> Num(val.v)]
      [] val.kind = "float"  ->
            \* truncation toward zero
            [exc |-> "none",
             value |-> Num(IF val.v >= 0 THEN val.v \div 2 ELSE -((-val.v) \div 2))]
      [] val.kind = "inf"    -> [exc |-> "OverflowError", value |-> Num(0)]
      [] val.kind = "nan"    -> [exc |-> "ValueError", value |-> Num(0)]
      [] val.kind = "str"    -> [exc |-> "ValueError", value |-> Num(0)]
      [] OTHER               -> [exc |-> "TypeError", value |-> Num(0)]

\* max(0, val)
Max0(x) == IF x.big \/ x.v >= 0 THEN x ELSE Num(0)

NumericKeys ==
    <<"total_time_on_node_ms", "scroll_events", "go_deeper_clicks",
      "sections_in_current_node", "time_per_section_ms">>

\* the defaults of sanitize_time_data
Defaults ==
    [current_node_id          |-> "",
     total_time_on_node_ms    |-> Num(0),
     scroll_events            |-> Num(0),
     go_deeper_clicks         |-> Num(0),
     sections_in_current_node |-> Num(1),
     time_per_section_ms      |-> Num(0)]

\* one numeric key of sanitize_time_data: time_data.get(key, default), int()
\* unless None, the default on ValueError or TypeError, then max(0, val)
SanitizeNumber(val, default_val) ==
    LET c == IF val.kind \in {"missing", "null"}
             THEN [exc |-> "none", value |-> default_val] ELSE IntOf(val)
    IN  IF c.exc \in {"ValueError", "TypeError"}
        THEN [exc |-> "none", value |-> Max0(default_val)]
        ELSE IF c.exc # "none"
        THEN [exc |-> c.exc, value |-> default_val]
        ELSE [exc |-> "none", value |-> Max0(c.value)]

\* the current_node_id key: [kind, s], s being what str() gives for the value
JNode(kind, s) == [kind |-> kind, s |-> s]

\* str(val) if val is not None else "", for the current_node_id key
SanitizeNodeId(val) ==
    IF val.kind \in {"missing", "null"} THEN "" ELSE val.s

\* sanitize_time_data: [exc, value]; a non-dict gives the defaults; the keys
\* are converted in the order of the defaults, and the first exception that
\* is not caught leaves the function
SanitizeTimeData(data) ==
    IF data.type # "dict" THEN [exc |-> "none", value |-> Defaults]
    ELSE
    LET f == data.fields
        n == [k \in Range(NumericKeys) |-> SanitizeNumber(f[k], Defaults[k])]
        failed == {i \in 1..Len(NumericKeys) : n[NumericKeys[i]].exc # "none"}
        sections == n.sections_in_current_node.value
    IN  IF failed # {}
        THEN [exc |-> n[NumericKeys[CHOOSE i \in failed : \A j \in failed : i <= j]].exc,
              value |-> Defaults]
        ELSE [exc |-> "none",
              value |-> [current_node_id          |-> SanitizeNodeId(f.current_node_id),
                         total_time_on_node_ms    |-> n.total_time_on_node_ms.value,
                         scroll_events            |-> n.scroll_events.value,
                         go_deeper_clicks         |-> n.go_deeper_clicks.value,
                         sections_in_current_node |->
                             IF ~sections.big /\ sections.v < 1 THEN Num(1) ELSE sections,
                         time_per_section_ms      |-> n.time_per_section_ms.value]]

\* a sanitized sample as the dict sanitize_time_data is handed when it is
\* called a second time (compute_engagement_score sanitizes again)
AsDict(sample) ==
    [type   |-> "dict",
     fields |-> [current_node_id |-> JNode("str", sample.current_node_id)]
                @@ [k \in Range(NumericKeys) |->
                       IF sample[k].big THEN JOther("bigint") ELSE JInt(sample[k].v)]]

-----------------------------------------------------------------------------
(* Engagement scoring, in ten-thousandths. *)

Min(a, b) == IF a <= b THEN a ELSE b

\* round(x, 4) of a float whose exact value is whole + num/den
\* ten-thousandths (den > 0): the nearest ten-thousandth.  The float sum is
\* within a few ulps of the exact one, so where the exact value lies midway
\* between two ten-thousandths the float may fall on either side: both
\* neighbours are outcomes.
RoundOutcomes(whole, num, den) ==
    LET base == whole + (num \div den)
        r    == num % den
    IN  IF 2 * r > den THEN {base + 1}
        ELSE IF 2 * r = den THEN {base, base + 1}
        ELSE {base}

\* max(0.0, min(1.0, score)) in ten-thousandths
Clamp(score) == IF score < 0 THEN 0 ELSE IF score > 10000 THEN 10000 ELSE score

\* the variance factor taken as 1.0 when no time was spent on the node
WeightedScoresVarianceOne(t, s, c, sections, tps) ==
    LET timeNum == Min(t, 60000)
        whole   == 200 * Min(s, 10) + 1500 * Min(c, 2) + (timeNum \div 20) + 2000
    IN  {Clamp(x) : x \in RoundOutcomes(whole, timeNum % 20, 20)}

\* the weighted sum of compute_engagement_score for a sanitized sample of
\* small ints, clamped to [0, 1] and rounded:
\*   3000 * min(1, t / 60000) + 2000 * min(1, s / 10) + 3000 * min(1, c * 0.5)
\*   + 2000 * variance
\* variance is min(1, tps / (t / sections)) when t > 0 and t / sections > 0
\* (a sections too large for a float makes t / sections 0.0), else 0
WeightedScores(t, s, c, sections, tps) ==
    LET timeNum    == Min(t, 60000)                 \* 3000 * time = timeNum / 20
        scrollPart == 200 * Min(s, 10)
        clickPart  == 1500 * Min(c, 2)
        hasVar     == t > 0 /\ ~sections.big /\ sections.v > 0
        varNum     == IF ~hasVar THEN 0             \* 2000 * variance = varNum / t
                      ELSE IF tps * sections.v >= t THEN 2000 * t
                      ELSE 2000 * tps * sections.v
        den        == IF t > 0 THEN 20 * t ELSE 20
        whole      == scrollPart + clickPart + (timeNum \div 20)
                      + (IF t > 0 THEN varNum \div t ELSE 0)
        num        == (timeNum % 20) * (IF t > 0 THEN t ELSE 1)
                      + (IF t > 0 THEN 20 * (varNum % t) ELSE 0)
    IN  {Clamp(x) : x \in RoundOutcomes(whole, num, den)}

\* the arithmetic of compute_engagement_score on a sanitized sample, as the
\* set of its outcomes [exc, value]: an int too large for a float raises
\* OverflowError where it meets one (time_ms / 60000.0, scroll_events / 10.0,
\* go_deeper_clicks * 0.5, time_per_section / expected_per_section)
ScoreOf(sample) ==
    LET t   == sample.total_time_on_node_ms
        s   == sample.scroll_events
        c   == sample.go_deeper_clicks
        sec == sample.sections_in_current_node
        tps == sample.time_per_section_ms
    IN  IF t.big \/ s.big \/ c.big
        THEN {[exc |-> "OverflowError", value |-> 0]}
        ELSE IF t.v > 0 /\ ~sec.big /\ sec.v > 0 /\ tps.big
        THEN {[exc |-> "OverflowError", value |-> 0]}
        ELSE {[exc |-> "none", value |-> x] :
                 x \in WeightedScores(t.v, s.v, c.v, sec, IF tps.big THEN 0 ELSE tps.v)}

\* compute_engagement_score: sanitize, then score
ComputeEngagementScore(data) ==
    LET clean == SanitizeTimeData(data)
    IN  IF clean.exc # "none" THEN {[exc |-> clean.exc, value |-> 0]}
        ELSE ScoreOf(clean.value)

\* select_strategy with the lower bound of each band exclusive
SelectStrategyExclusive(score) ==
    IF score > 6500 THEN "deeper"
    ELSE IF score > 3500 THEN "branch"
    ELSE "pivot"

\* select_strategy
SelectStrategy(score) ==
    IF score >= 6500 THEN "deeper"
    ELSE IF score >= 3500 THEN "branch"
    ELSE "pivot"

\* a dict without any of the six keys
AllMissing ==
    [current_node_id |-> JNode("missing", "")]
        @@ [k \in Range(NumericKeys) |-> JOther("missing")]

\* a request that sends no telemetry: time_data is None
NoTimeData == [type |-> "NoneType", fields |-> AllMissing]

-----------------------------------------------------------------------------
(* The topic graph (topic_graph.py): nodes, and for each main topic its     *)
(* subtopic lists keyed by strategy.                                        *)

\* the fallback order read from its end
StrategiesReversed == <<"pivot", "branch", "deeper">>

\* the strategies, in the order the fallback loop tries them
Strategies == <<"deeper", "branch", "pivot">>

\* NODES: id -> label
NODES ==
    [id \in {"black-holes", "hawking-radiation", "event-horizon", "singularity",
             "neutron-stars", "quantum-mechanics", "crispr-gene-editing",
             "prime-editing", "synthetic-biology", "epigenetics", "gene-therapy",
             "bioethics", "neural-networks"} |->
        CASE id = "black-holes"         -> "Black Holes"
          [] id = "hawking-radiation"   -> "Hawking Radiation"
          [] id = "event-horizon"       -> "Event Horizon"
          [] id = "singularity"         -> "Singularity"
          [] id = "neutron-stars"       -> "Neutron Stars"
          [] id = "quantum-mechanics"   -> "Quantum Mechanics"
          [] id = "crispr-gene-editing" -> "CRISPR Gene Editing"
          [] id = "prime-editing"       -> "Prime Editing"
          [] id = "synthetic-biology"   -> "Synthetic Biology"
          [] id = "epigenetics"         -> "Epigenetics"
          [] id = "gene-therapy"        -> "Gene Therapy"
          [] id = "bioethics"           -> "Bioethics"
          [] OTHER                      -> "Neural Networks"]

\* TOPIC_GRAPH: main topic -> strategy -> subtopic ids
TOPIC_GRAPH ==
    [main \in {"black-holes", "crispr-gene-editing"} |->
        IF main = "black-holes"
        THEN [deeper |-> <<"hawking-radiation", "event-horizon", "singularity">>,
              branch |-> <<"neutron-stars">>,
              pivot  |-> <<"quantum-mechanics">>]
        ELSE [deeper |-> <<"prime-editing">>,
              branch |-> <<"synthetic-biology", "epigenetics", "gene-therapy", "bioethics">>,
              pivot  |-> <<"neural-networks">>]]

\* get_node(id): the node {id, label}, or None
HasNode(id) == id \in DOMAIN NODES

NodeOf(id) == [id |-> id, label |-> NODES[id]]

\* get_subtopics(main_topic, strategy): the ids, [] for an unknown main topic
GetSubtopics(main_topic, strat) ==
    IF main_topic \in DOMAIN TOPIC_GRAPH THEN TOPIC_GRAPH[main_topic][strat] ELSE <<>>

\* the sequence s without the elements that fail Keep
RECURSIVE FilterSeq(_, _)
FilterSeq(s, keep) ==
    IF s = <<>> THEN <<>>
    ELSE IF Head(s) \in keep THEN <<Head(s)>> \o FilterSeq(Tail(s), keep)
    ELSE FilterSeq(Tail(s), keep)

\* get_subtopic_nodes(main_topic, strategy, exclude): the nodes of the
\* subtopic list, in its order, that are not excluded
GetSubtopicNodes(main_topic, strat, exclude) ==
    LET ids  == GetSubtopics(main_topic, strat)
        kept == FilterSeq(ids, {id \in Range(ids) : HasNode(id) /\ id \notin exclude})
    IN  [i \in 1..Len(kept) |-> NodeOf(kept[i])]

\* find_topic_for_node(id): the main topic that lists id as a subtopic, or None
FindTopicForNode(id) ==
    LET owners == {m \in DOMAIN TOPIC_GRAPH :
                      \E k \in 1..Len(Strategies) : id \in Range(TOPIC_GRAPH[m][Strategies[k]])}
    IN  IF owners = {} THEN None ELSE CHOOSE m \in owners : TRUE

\* topic_id.replace("-", " ").title()
TitleOf(id) ==
    CASE id = "alien-technology" -> "Alien Technology"
      [] OTHER                   -> id

\* node["label"] if node else topic_id.replace("-", " ").title()
LabelOf(id) == IF HasNode(id) THEN NODES[id] ELSE TitleOf(id)

-----------------------------------------------------------------------------
(* Mock content pools.  A paragraph is [src, topic, strategy, idx, label]:   *)
(* paragraph idx of the pool of (topic, strategy); a generic template has   *)
(* the token "{label}" as its label until format() substitutes it.          *)

Paragraph(src, topic, strat, idx, label) ==
    [src |-> src, topic |-> topic, strategy |-> strat, idx |-> idx, label |-> label]

\* the number of paragraphs TOPIC_POOLS holds for (topic, strategy)
TopicPoolSize(topic, strat) ==
    CASE topic = "black-holes" /\ strat = "deeper"         -> 4
      [] topic = "black-holes" /\ strat = "branch"         -> 3
      [] topic = "black-holes" /\ strat = "pivot"          -> 2
      [] topic = "crispr-gene-editing" /\ strat = "deeper" -> 4
      [] topic = "crispr-gene-editing" /\ strat = "branch" -> 2
      [] topic = "crispr-gene-editing" /\ strat = "pivot"  -> 1
      [] OTHER                                             -> 0

\* TOPIC_POOLS.get(topic_id, {}).get(strategy, [])
TOPIC_POOLS(topic, strat) ==
    [i \in 1..TopicPoolSize(topic, strat) |-> Paragraph("topic", topic, strat, i, "")]

\* GENERIC_POOL.get(strategy, GENERIC_POOL["deeper"]): the templates
GENERIC_POOL(strat) ==
    LET n == IF strat \in {"branch", "pivot"} THEN 2 ELSE 3
        key == IF strat \in {"branch", "pivot"} THEN strat ELSE "deeper"
    IN  [i \in 1..n |-> Paragraph("generic", "", key, i, "{label}")]

\* a format that returns the template as it is
FormatNothing(t, label) == t

\* t.format(label=label, slug=topic_id): every {label} token becomes the label
\* (no template holds a {slug} token)
Format(t, label) == [t EXCEPT !.label = label]

\* a pick that does not look at the used paragraphs
PickTextIgnoringUsed(topic, strat, used_texts) ==
    LET specific == TOPIC_POOLS(topic, strat)
        generic  == GENERIC_POOL(strat)
    IN  IF specific = <<>>
        THEN {Format(generic[i], LabelOf(topic)) : i \in 1..Len(generic)}
        ELSE Range(specific)

\* _pick_text(topic_id, strategy, used_texts): the paragraphs random.choice
\* may return: the pool of the topic (the formatted generic pool when the
\* topic has none) without the used ones, the whole pool when all are used,
\* and f"Exploring {topic}." when the pool is empty
PickText(topic, strat, used_texts) ==
    LET specific == TOPIC_POOLS(topic, strat)
        generic  == GENERIC_POOL(strat)
        pool == IF specific = <<>>
                THEN [i \in 1..Len(generic) |-> Format(generic[i], LabelOf(topic))]
                ELSE specific
        unused == Range(pool) \ used_texts
        available == IF unused = {} THEN Range(pool) ELSE unused
    IN  IF available = {} THEN {Paragraph("exploring", topic, "", 0, "")} ELSE available

-----------------------------------------------------------------------------
(* Blocks.  A block is [isdict, keys, id, type, content, group_id,          *)
(* group_role, media]; keys is the set of keys the dict holds.  A media     *)
(* value is [isdict, template, label, keys].                                *)

\* the outcomes of uuid.uuid4().hex[:8]
ShortIds == {"3f9a1c07", "b2e45d10"}

\* _uid(prefix) when uuid4 gives short
Uid(prefix, short) == IF prefix = "" THEN short ELSE prefix \o "-" \o short

\* a block without a "media" key, and the media value None
NoMedia == [isdict |-> FALSE, template |-> "", label |-> "", keys |-> {}]

\* the keys of the template generate_mock_media holds for a media type
TemplateKeys(template) ==
    {"url", "source", "attribution", "width", "height"} \cup
        CASE template = "wikimedia" -> {"description"}
          [] template = "reddit"    -> {"title", "score"}
          [] template = "xkcd"      -> {"alt_text", "title"}
          [] template = "tweet"     -> {"text", "likes", "retweets"}
          [] OTHER                  -> {}

\* generate_mock_media(media_type, topic_label):
\* templates.get(media_type, templates["unsplash"])
GenerateMockMedia(media_type, topic_label) ==
    LET template == IF media_type \in Range(MEDIA_TYPES) THEN media_type ELSE "unsplash"
    IN  [isdict |-> TRUE, template |-> template, label |-> topic_label,
         keys |-> TemplateKeys(template)]

\* _text_role_for_media(media_type)
TextRoleForMedia(media_type) ==
    CASE media_type = "unsplash"        -> "explanation"
      [] media_type = "wikipedia_image" -> "explanation"
      [] media_type = "wikimedia"       -> "caption"
      [] media_type = "reddit"          -> "context"
      [] media_type = "xkcd"            -> "funfact"
      [] media_type = "meme"            -> "funfact"
      [] media_type = "tweet"           -> "context"
      [] OTHER                          -> "explanation"

\* a role mapping that hands the media block the role of its text partner
MediaRoleFromTextTable(media_type) == TextRoleForMedia(media_type)

\* _media_role_for_type(media_type)
MediaRoleForType(media_type) ==
    CASE media_type = "unsplash"        -> "visual"
      [] media_type = "wikipedia_image" -> "visual"
      [] media_type = "wikimedia"       -> "diagram"
      [] media_type = "reddit"          -> "discussion"
      [] media_type = "xkcd"            -> "humor"
      [] media_type = "meme"            -> "humor"
      [] media_type = "tweet"           -> "social"
      [] OTHER                          -> "visual"

\* the text block dict literal
TextBlock(id, content, group_id, group_role) ==
    [isdict |-> TRUE, keys |-> {"id", "type", "content", "group_id", "group_role"},
     id |-> id, type |-> "text", content |-> content, group_id |-> group_id,
     group_role |-> group_role, media |-> NoMedia]

\* the media block dict literal
MediaBlock(id, media_type, content, group_id, group_role, media) ==
    [isdict |-> TRUE,
     keys |-> {"id", "type", "content", "group_id", "group_role", "media"},
     id |-> id, type |-> media_type, content |-> content, group_id |-> group_id,
     group_role |-> group_role, media |-> media]

\* Python truthiness of a role value: None and "" are false
Truthy(val) == val \notin {"", None}

\* validate_content_block(block): the error strings, in order
ValidateContentBlock(block) ==
    IF ~block.isdict THEN <<"Block is not a dict">>
    ELSE
    LET required == <<"id", "type", "content", "group_id", "group_role">>
        missing  == FilterSeq(required, {k \in Range(required) : k \notin block.keys})
        role     == IF "group_role" \in block.keys THEN block.group_role ELSE None
        typed ==
            IF "type" \notin block.keys THEN <<>>
            ELSE IF block.type = "text"
            THEN IF Truthy(role) /\ role \notin VALID_GROUP_ROLES_TEXT
                 THEN <<"Invalid text group_role: " \o role>> ELSE <<>>
            ELSE IF block.type \in Range(MEDIA_TYPES)
            THEN (IF Truthy(role) /\ role \notin VALID_GROUP_ROLES_MEDIA
                  THEN <<"Invalid media group_role: " \o role>> ELSE <<>>)
                 \o (IF "media" \notin block.keys
                     THEN <<"Media block missing 'media' key">>
                     ELSE IF ~block.media.isdict
                     THEN <<"Media block 'media' is not a dict">>
                     ELSE (IF "url" \notin block.media.keys
                           THEN <<"Media block missing 'url'">> ELSE <<>>)
                          \o (IF "source" \notin block.media.keys
                              THEN <<"Media block missing 'source'">> ELSE <<>>))
            ELSE <<"Unknown block type: " \o block.type>>
    IN  [i \in 1..Len(missing) |-> "Missing key: " \o missing[i]] \o typed

\* a field value that is a non-empty list instead of a string: Python
\* cannot hash it
ListValue == "['deeper']"

Unhashable(val) == val = ListValue

\* validate_content_block(block): the exception of the call.  The role of a
\* text or media block is looked up in a set of strings when it is truthy,
\* and the lookup hashes it.
ValidateContentBlockRaises(block) ==
    IF /\ block.isdict
       /\ "type" \in block.keys
       /\ block.type \in {"text"} \cup Range(MEDIA_TYPES)
       /\ "group_role" \in block.keys
       /\ Truthy(block.group_role)
       /\ Unhashable(block.group_role)
    THEN "TypeError" ELSE "none"

\* a number of a response: v in ten-thousandths, repr its Python rendering
Score(v, repr) == [isnum |-> TRUE, v |-> v, repr |-> repr]

\* a value that is neither an int nor a float
NotANumber == [isnum |-> FALSE, v |-> 0, repr |-> "high"]

\* a list field of a response, or a value that is no list
ListOf(items) == [islist |-> TRUE, items |-> items]

NotAList == [islist |-> FALSE, items |-> <<>>]

\* the graph field of a response: a dict with its keys and its nodes
GraphOf(keys, nodes) == [isdict |-> TRUE, keys |-> keys, nodes |-> nodes]

NotAGraph == [isdict |-> FALSE, keys |-> {}, nodes |-> NotAList]

\* the "Missing key" errors of the required keys, in order
MissingKeys(required, keys) ==
    LET missing == FilterSeq(required, {k \in Range(required) : k \notin keys})
    IN  [i \in 1..Len(missing) |-> "Missing key: " \o missing[i]]

\* the errors of the blocks, each one prefixed with the position of its block
RECURSIVE BlockErrors(_, _)
BlockErrors(items, i) ==
    IF i > Len(items) THEN <<>>
    ELSE LET block_errors == ValidateContentBlock(items[i])
         IN  [k \in 1..Len(block_errors) |->
                 "content_blocks[" \o ToString(i - 1) \o "]: " \o block_errors[k]]
             \o BlockErrors(items, i + 1)

\* the content_blocks part of both response validators
ContentBlocksErrors(response) ==
    IF "content_blocks" \notin response.keys THEN <<>>
    ELSE IF ~response.content_blocks.islist THEN <<"content_blocks is not a list">>
    ELSE BlockErrors(response.content_blocks.items, 1)

\* the exception of the content_blocks part: the one of the first block that raises
ContentBlocksRaises(response) ==
    IF /\ "content_blocks" \in response.keys
       /\ response.content_blocks.islist
       /\ \E i \in 1..Len(response.content_blocks.items) :
              ValidateContentBlockRaises(response.content_blocks.items[i]) # "none"
    THEN "TypeError" ELSE "none"

\* the next_nodes part of both response validators
NextNodesErrors(response) ==
    IF "next_nodes" \in response.keys /\ ~response.next_nodes.islist
    THEN <<"next_nodes is not a list">> ELSE <<>>

\* validate_response(response): [exc, errors].  The strategy is looked up in
\* the set VALID_STRATEGIES, and the lookup hashes it.
ValidateResponse(response) ==
    IF ~response.isdict THEN [exc |-> "none", errors |-> <<"Response is not a dict">>]
    ELSE IF "strategy_used" \in response.keys /\ Unhashable(response.strategy_used)
    THEN [exc |-> "TypeError", errors |-> <<>>]
    ELSE IF ContentBlocksRaises(response) # "none"
    THEN [exc |-> ContentBlocksRaises(response), errors |-> <<>>]
    ELSE
    LET required == <<"content_blocks", "next_nodes", "strategy_used", "engagement_score">>
        strategy_errors ==
            IF /\ "strategy_used" \in response.keys
               /\ response.strategy_used \notin VALID_STRATEGIES
            THEN <<"Invalid strategy: " \o response.strategy_used>> ELSE <<>>
        score == response.engagement_score
        score_errors ==
            IF "engagement_score" \notin response.keys THEN <<>>
            ELSE IF ~score.isnum THEN <<"engagement_score is not a number">>
            ELSE IF score.v < 0 \/ score.v > 10000
            THEN <<"engagement_score out of range: " \o score.repr>>
            ELSE <<>>
    IN  [exc |-> "none",
         errors |-> MissingKeys(required, response.keys) \o strategy_errors
                    \o score_errors \o ContentBlocksErrors(response)
                    \o NextNodesErrors(response)]

\* validate_initial_response(response): [exc, errors].  The strategy is
\* compared with "deeper", which hashes nothing.
ValidateInitialResponse(response) ==
    IF ~response.isdict THEN [exc |-> "none", errors |-> <<"Response is not a dict">>]
    ELSE IF ContentBlocksRaises(response) # "none"
    THEN [exc |-> ContentBlocksRaises(response), errors |-> <<>>]
    ELSE
    LET required == <<"content_blocks", "graph", "next_nodes", "strategy_used">>
        strategy_errors ==
            IF "strategy_used" \in response.keys /\ response.strategy_used # "deeper"
            THEN <<"Initial strategy should be 'deeper', got: " \o response.strategy_used>>
            ELSE <<>>
        g == response.graph
        graph_errors ==
            IF "graph" \notin response.keys THEN <<>>
            ELSE IF ~g.isdict THEN <<"graph is not a dict">>
            ELSE (IF "nodes" \notin g.keys THEN <<"graph missing 'nodes'">>
                  ELSE IF ~g.nodes.islist \/ Len(g.nodes.items) = 0
                  THEN <<"graph 'nodes' must be a non-empty list">>
                  ELSE <<>>)
                 \o (IF "edges" \notin g.keys THEN <<"graph missing 'edges'">> ELSE <<>>)
    IN  [exc |-> "none",
         errors |-> MissingKeys(required, response.keys) \o strategy_errors
                    \o graph_errors \o ContentBlocksErrors(response)
                    \o NextNodesErrors(response)]

\* no content request is being served
NoRequest ==
    /\ topic_id = ""
    /\ strategy = "deeper"
    /\ visited_nodes = {}
    /\ plan = NoPlan
    /\ api_results = <<>>
    /\ content_blocks = <<>>
    /\ next_nodes = <<>>
    /\ graph = NoGraph
    /\ session_ids = {}
    /\ validated = NoResponse
    /\ errors = <<>>

ScoringIdle ==
    /\ time_data = NoTimeData
    /\ td = Defaults
    /\ engagement_score = 0
    /\ strategy_used = None
    /\ raised = "none"
    /\ pc = "idle"

TrackerInit ==
    /\ \E cfg \in TrackerConfigs : tracker = NewTracker(cfg)
    /\ out = <<>>
    /\ attempts = 0
    /\ popped = None
    /\ assembly = <<>>
    /\ ScoringIdle
    /\ NoRequest

\* one call of tracker.next_type()
NextType ==
    /\ Len(out) < MaxCalls
    /\ \E shuffled \in Shuffles(IF tracker.queue = <<>> THEN tracker.types ELSE <<>>) :
          LET r == NextTypeOf(tracker, shuffled)
          IN  /\ tracker' = r.tracker
              /\ out' = Append(out, r.media_type)
              /\ attempts' = r.attempts
              /\ popped' = r.media_type
    /\ UNCHANGED <<concurrentVars, scoreVars, requestVars, responseVars, validateVars,
                   raised, pc>>

TrackerNext == NextType

SpecTracker == TrackerInit /\ [][TrackerNext]_vars

\* next_type() statement by statement.

\* the condition of the while loop without its limit on the attempts
LoopConditionNoLimit == popped = tracker.last /\ Len(tracker.types) > 1

\* the condition of the while loop
LoopCondition ==
    popped = tracker.last /\ Len(tracker.types) > 1 /\ attempts < Len(tracker.types)

\* the call starts: the queue is refilled by a shuffle when it is empty, the
\* first kind is popped, attempts = 0
PopLeft ==
    /\ pc = "idle"
    /\ Len(out) < MaxCalls
    /\ \E shuffled \in Shuffles(IF tracker.queue = <<>> THEN tracker.types ELSE <<>>) :
          LET q0 == IF tracker.queue = <<>> THEN shuffled ELSE tracker.queue
          IN  /\ tracker' = [tracker EXCEPT !.queue = Tail(q0)]
              /\ popped' = Head(q0)
    /\ attempts' = 0
    /\ pc' = "loop"
    /\ UNCHANGED <<out, concurrentVars, scoreVars, requestVars, responseVars,
                   validateVars, raised>>

\* one pass of the loop body: the kind goes to the back, the next is popped
Rotate ==
    /\ pc = "loop"
    /\ LoopCondition
    /\ LET q == Append(tracker.queue, popped)
       IN  /\ tracker' = [tracker EXCEPT !.queue = Tail(q)]
           /\ popped' = Head(q)
    /\ attempts' = attempts + 1
    /\ UNCHANGED <<out, pc, concurrentVars, scoreVars, requestVars, responseVars,
                   validateVars, raised>>

\* the loop is left: the kind becomes the last one and is returned
ReturnType ==
    /\ pc = "loop"
    /\ ~LoopCondition
    /\ tracker' = [tracker EXCEPT !.last = popped]
    /\ out' = Append(out, popped)
    /\ pc' = "idle"
    /\ UNCHANGED <<attempts, popped, concurrentVars, scoreVars, requestVars,
                   responseVars, validateVars, raised>>

RotateNext == PopLeft \/ Rotate \/ ReturnType

\* a call that has started keeps running
SpecRotate ==
    TrackerInit /\ [][RotateNext]_vars /\ WF_vars(Rotate) /\ WF_vars(ReturnType)

Distinct(s) == \A i, j \in 1..Len(s) : i # j => s[i] # s[j]

\* C1: with two or more pairwise-distinct configured kinds, no two consecutive
\* values returned by next_type() are equal, whatever the number of calls,
\* queue exhaustions and reshuffles.
C1_NoConsecutiveDuplicates ==
    (Len(tracker.types) >= 2 /\ Distinct(tracker.types))
        => \A i \in 1..(Len(out) - 1) : out[i] # out[i + 1]

\* C1 witness: a tracker of distinct kinds was refilled by a shuffle that put
\* the last emitted kind first, and has answered after rotating past it.
C1_Witness ==
    /\ Len(tracker.types) >= 2
    /\ Distinct(tracker.types)
    /\ Len(out) > Len(tracker.types)
    /\ attempts >= 1
    /\ tracker.queue[Len(tracker.queue)] = out[Len(out) - 1]

-----------------------------------------------------------------------------
(* Scoring: sanitize_time_data and compute_engagement_score called on any   *)
(* value, and lines 143-145 of the generate route.                          *)

TimeInputs ==
    {JInt(n) : n \in {-5000, 0, 12345, 60000, 120000}}
        \cup {JFloat(10001), JOther("null"), JOther("nan"), JOther("inf"),
              JOther("bigint")}

ScrollInputs ==
    {JInt(n) : n \in {-1, 0, 3, 10, 12}} \cup {JOther("list"), JOther("bigint")}

ClickInputs ==
    {JInt(n) : n \in 0..MaxClicks} \cup {JNumStr(2), JOther("bigint")}

SectionInputs ==
    {JInt(n) : n \in -1..MaxSections} \cup {JOther("str")}

PerSectionInputs ==
    {JInt(n) : n \in {0, 4115, 20000, 60000}}
        \cup {JOther("missing"), JOther("bigint")}

NodeIdInputs == {JNode("str", "black-holes")}

DictInputs ==
    {[type |-> "dict",
      fields |-> [current_node_id          |-> n,
                  total_time_on_node_ms    |-> t,
                  scroll_events            |-> s,
                  go_deeper_clicks         |-> c,
                  sections_in_current_node |-> sec,
                  time_per_section_ms      |-> tps]] :
        n \in NodeIdInputs, t \in TimeInputs, s \in ScrollInputs,
        c \in ClickInputs, sec \in SectionInputs, tps \in PerSectionInputs}

\* what a caller may hand the functions: a dict, None, or another non-dict
TimeDataInputs ==
    DictInputs \cup {NoTimeData, [type |-> "str", fields |-> AllMissing]}

TrackerIdle ==
    /\ tracker = NewTracker(<<>>)
    /\ out = <<>>
    /\ attempts = 0
    /\ popped = None
    /\ assembly = <<>>

ScoreInit ==
    /\ TrackerIdle
    /\ NoRequest
    /\ time_data \in TimeDataInputs
    /\ td = Defaults
    /\ engagement_score = 0
    /\ strategy_used = None
    /\ raised = "none"
    /\ pc = "idle"

\* sanitize_time_data(time_data)
CallSanitize ==
    /\ pc = "idle"
    /\ LET r == SanitizeTimeData(time_data)
       IN  /\ td' = r.value
           /\ raised' = r.exc
    /\ pc' = "sanitize_done"
    /\ UNCHANGED <<concurrentVars, trackerVars, time_data, engagement_score,
                   strategy_used, requestVars, responseVars, validateVars>>

\* compute_engagement_score(time_data)
CallCompute ==
    /\ pc = "idle"
    /\ \E r \in ComputeEngagementScore(time_data) :
          /\ td' = SanitizeTimeData(time_data).value
          /\ engagement_score' = r.value
          /\ raised' = r.exc
    /\ pc' = "compute_done"
    /\ UNCHANGED <<concurrentVars, trackerVars, time_data, strategy_used, requestVars, responseVars,
                   validateVars>>

\* the generate route up to the strategy: time_data is an object or absent
\* (anything else was answered 400); clean_time_data = sanitize_time_data(
\* time_data), engagement_score = compute_engagement_score(clean_time_data),
\* strategy = select_strategy(engagement_score).  An exception leaves the
\* try block (the route answers 500).
GenerateScore ==
    /\ pc = "idle"
    /\ time_data.type \in {"dict", "NoneType"}
    /\ LET clean == SanitizeTimeData(time_data)
       IN  \E r \in (IF clean.exc # "none" THEN {[exc |-> clean.exc, value |-> 0]}
                      ELSE ComputeEngagementScore(AsDict(clean.value))) :
              /\ td' = clean.value
              /\ engagement_score' = r.value
              /\ raised' = r.exc
              /\ strategy_used' =
                    IF r.exc = "none" THEN SelectStrategy(r.value) ELSE None
    /\ pc' = "strategy_done"
    /\ UNCHANGED <<concurrentVars, trackerVars, time_data, requestVars, responseVars, validateVars>>

ScoreNext == CallSanitize \/ CallCompute \/ GenerateScore

SpecScore == ScoreInit /\ [][ScoreNext]_vars

-----------------------------------------------------------------------------
(* Claims about scoring. *)

\* the request came back from compute_engagement_score or from the route
Scored == pc \in {"compute_done", "strategy_done"}

\* C3: compute_engagement_score returns a value within [0, 1] for every
\* input, counts that are arbitrarily large, negative, missing or malformed
\* included: no call ends in an exception.
C3_ScoreInUnitInterval ==
    Scored => (raised = "none" /\ 0 <= engagement_score /\ engagement_score <= 10000)

\* the number x is n or more
AtLeast(x, n) == x.big \/ x.v >= n

\* a call of compute_engagement_score on a dict of ints that ended in an
\* OverflowError
C3_RaisedOverflow ==
    /\ pc = "compute_done"
    /\ time_data.type = "dict"
    /\ \A k \in Range(NumericKeys) : time_data.fields[k].kind \in {"int", "bigint"}
    /\ raised = "OverflowError"

\* the sample has every factor saturated: 60 s or more, 10 scrolls or more,
\* 2 clicks or more, time_per_section_ms * sections >= total time
Saturated(sample) ==
    /\ AtLeast(sample.total_time_on_node_ms, 60000)
    /\ AtLeast(sample.scroll_events, 10)
    /\ AtLeast(sample.go_deeper_clicks, 2)
    /\ \/ sample.time_per_section_ms.big
       \/ /\ ~sample.total_time_on_node_ms.big
          /\ sample.time_per_section_ms.v * sample.sections_in_current_node.v
                >= sample.total_time_on_node_ms.v

\* the caller's telemetry is a well-formed sample: a dict of ints, every
\* count >= 0 and sections >= 1, so sanitizing leaves it as it is
WellFormed(data) ==
    /\ data.type = "dict"
    /\ \A k \in Range(NumericKeys) : data.fields[k].kind \in {"int", "bigint"}
    /\ \A k \in Range(NumericKeys) : data.fields[k].kind = "int" => data.fields[k].v >= 0
    /\ data.fields.sections_in_current_node.kind = "int"
    /\ data.fields.sections_in_current_node.v >= 1

\* C4: a telemetry sample with every factor saturated scores exactly 1.0.
C4_SaturatedScoresOne ==
    (Scored /\ WellFormed(time_data) /\ Saturated(td))
        => (raised = "none" /\ engagement_score = 10000)

\* a call on a saturated sample that ended in an OverflowError
C4_SaturatedRaised ==
    /\ Scored
    /\ WellFormed(time_data)
    /\ Saturated(td)
    /\ raised = "OverflowError"

\* the four counts are the int 0 and sections is an int
AllZero(data) ==
    /\ data.type = "dict"
    /\ \A k \in {"total_time_on_node_ms", "scroll_events", "go_deeper_clicks",
                 "time_per_section_ms"} : data.fields[k] = JInt(0)
    /\ data.fields.sections_in_current_node.kind = "int"

\* C5: all-zero telemetry and absent telemetry score exactly 0.0, and the
\* generate route then runs under pivot.
C5_ZeroScoresZero ==
    (Scored /\ (AllZero(time_data) \/ time_data.type = "NoneType"))
        => /\ raised = "none"
           /\ engagement_score = 0
           /\ pc = "strategy_done" => strategy_used = "pivot"

\* C5 witness: the route has answered a request that sent no time_data.
C5_Witness ==
    /\ pc = "strategy_done"
    /\ time_data.type = "NoneType"
    /\ strategy_used = "pivot"

\* C6: sanitize_time_data never fails; its result holds ints >= 0 with
\* sections >= 1, and a non-dict gives the all-default sample.
C6_SanitizeTotal ==
    pc = "sanitize_done" =>
        /\ raised = "none"
        /\ \A k \in Range(NumericKeys) : td[k].big \/ td[k].v >= 0
        /\ AtLeast(td.sections_in_current_node, 1)
        /\ time_data.type # "dict" => td = Defaults

\* a call of sanitize_time_data on a dict whose total_time_on_node_ms is the
\* float infinity that ended in an OverflowError
C6_RaisedOnInfinity ==
    /\ pc = "sanitize_done"
    /\ time_data.type = "dict"
    /\ time_data.fields.total_time_on_node_ms.kind = "inf"
    /\ raised = "OverflowError"

-----------------------------------------------------------------------------
(* select_strategy applied to any score. *)

SelectInit ==
    /\ TrackerIdle
    /\ NoRequest
    /\ time_data = NoTimeData
    /\ td = Defaults
    /\ engagement_score \in (-ScoreMargin)..(10000 + ScoreMargin)
    /\ strategy_used = None
    /\ raised = "none"
    /\ pc = "idle"

\* select_strategy(engagement_score)
CallSelect ==
    /\ pc = "idle"
    /\ strategy_used' = SelectStrategy(engagement_score)
    /\ pc' = "select_done"
    /\ UNCHANGED <<concurrentVars, trackerVars, time_data, td, engagement_score,
                   raised, requestVars, responseVars, validateVars>>

SelectNext == CallSelect

SpecSelect == SelectInit /\ [][SelectNext]_vars

\* C2: select_strategy answers for every score, with deeper exactly from 0.65
\* up, branch exactly from 0.35 up to (not including) 0.65 and pivot exactly
\* below 0.35.
C2_StrategyBands ==
    pc = "select_done" =>
        /\ strategy_used \in VALID_STRATEGIES
        /\ strategy_used = "deeper" <=> engagement_score >= 6500
        /\ strategy_used = "branch" <=> (3500 <= engagement_score /\ engagement_score < 6500)
        /\ strategy_used = "pivot" <=> engagement_score < 3500

\* C2 witness: the score 0.35, the inclusive lower bound of a band, was
\* answered with branch.
C2_Witness ==
    pc = "select_done" /\ engagement_score = 3500 /\ strategy_used = "branch"

-----------------------------------------------------------------------------
(* Mock content assembly: generate_content_blocks. *)

\* the kinds that n successive next_type() calls on tracker t may return
RECURSIVE NextTypeRuns(_, _)
NextTypeRuns(t, n) ==
    IF n = 0 THEN {<<>>}
    ELSE UNION {LET r == NextTypeOf(t, shuffled)
                IN  {<<r.media_type>> \o rest : rest \in NextTypeRuns(r.tracker, n - 1)}
                : shuffled \in Shuffles(IF t.queue = <<>> THEN t.types ELSE <<>>)}

\* main_topic: the topic itself when the graph has it as a main topic, else
\* the main topic that lists it, else (unknown topic) the topic itself
ResolveMainTopic(topic) ==
    IF topic \in DOMAIN TOPIC_GRAPH THEN topic
    ELSE IF FindTopicForNode(topic) = None THEN topic
    ELSE FindTopicForNode(topic)

\* f"{label} - {media_type} content"
MediaContent(label, media_type) == Paragraph("media", media_type, "", 0, label)

\* what _uid draws for one group: the shorts of the group id, the text block
\* id and the media block id
UidDraws == [grp : ShortIds, text : ShortIds, media : ShortIds]

\* the texts that n successive _pick_text calls may return, each added to
\* used_texts before the next call
RECURSIVE PickTextRuns(_, _, _, _)
PickTextRuns(main_topic, strat, used_texts, n) ==
    IF n = 0 THEN {<<>>}
    ELSE UNION {{<<text>> \o rest
                 : rest \in PickTextRuns(main_topic, strat, used_texts \cup {text}, n - 1)}
                : text \in PickText(main_topic, strat, used_texts)}

\* one pass of the loop over the groups: the text block and the media block
\* of a group, given the media type the tracker returned, the text picked
\* and the ids drawn
GroupBlocks(topic, media_type, text, uid) ==
    LET label == LabelOf(topic)
        group_id == Uid("grp", uid.grp)
    IN  <<TextBlock(Uid("text", uid.text), text, group_id, TextRoleForMedia(media_type)),
          MediaBlock(Uid(media_type, uid.media), media_type,
                     MediaContent(label, media_type), group_id,
                     MediaRoleForType(media_type),
                     GenerateMockMedia(media_type, label))>>

\* blocks after the loop: the blocks of the groups, in order
RECURSIVE AssembleGroups(_, _, _, _)
AssembleGroups(topic, media_types, texts, uids) ==
    IF media_types = <<>> THEN <<>>
    ELSE GroupBlocks(topic, Head(media_types), Head(texts), Head(uids))
            \o AssembleGroups(topic, Tail(media_types), Tail(texts), Tail(uids))

\* the fallback loop that asks the graph with nothing excluded
RECURSIVE FallbackNodeListUnfiltered(_, _, _)
FallbackNodeListUnfiltered(main_topic, visited, k) ==
    LET l == GetSubtopicNodes(main_topic, Strategies[k], {})
    IN  IF l # <<>> \/ k = Len(Strategies) THEN l
        ELSE FallbackNodeListUnfiltered(main_topic, visited, k + 1)

\* the first non-empty list of unvisited subtopic nodes over the strategies
\* from position k on; the list of the last strategy when all are empty
RECURSIVE FallbackNodeList(_, _, _)
FallbackNodeList(main_topic, visited, k) ==
    LET l == GetSubtopicNodes(main_topic, Strategies[k], visited)
    IN  IF l # <<>> \/ k = Len(Strategies) THEN l
        ELSE FallbackNodeList(main_topic, visited, k + 1)

\* the next-node list whose fallback asks the graph with nothing excluded
NextNodeListFallbackUnfiltered(main_topic, strat, visited) ==
    LET l == GetSubtopicNodes(main_topic, strat, visited)
    IN  IF l # <<>> THEN l ELSE FallbackNodeList(main_topic, {}, 1)

\* next_node_list before the limit: the subtopics of the strategy without
\* the visited ones; when there are none, those of the first of deeper,
\* branch, pivot that has any
NextNodeList(main_topic, strat, visited) ==
    LET l == GetSubtopicNodes(main_topic, strat, visited)
    IN  IF l # <<>> THEN l ELSE FallbackNodeList(main_topic, visited, 1)

\* a sample that may take a position more than once
Sample3WithReplacement(s) ==
    LET idx == 1..Len(s)
    IN  {<<s[p[1]], s[p[2]], s[p[3]]>> : p \in idx \X idx \X idx}

\* random.sample(s, 3): three elements at distinct positions, in any order
Sample3(s) ==
    LET idx   == 1..Len(s)
        picks == {p \in idx \X idx \X idx : p[1] # p[2] /\ p[1] # p[3] /\ p[2] # p[3]}
    IN  {<<s[p[1]], s[p[2]], s[p[3]]>> : p \in picks}

\* the suggestions returned: the list, limited to three by random.sample
NextNodeOutcomes(main_topic, strat, visited) ==
    LET l == NextNodeList(main_topic, strat, visited)
    IN  IF Len(l) > 3 THEN Sample3(l) ELSE {l}

\* generate_content_blocks(topic_id, strategy, visited_nodes, num_groups):
\* the (content_blocks, next_nodes) pair it returns when the tracker gives
\* media_types, _pick_text gives texts, _uid draws uids and the limit to three
\* suggestions leaves nodes
GenerateContentBlocksResult(topic, media_types, texts, uids, nodes) ==
    [content_blocks |-> AssembleGroups(topic, media_types, texts, uids),
     next_nodes |-> nodes]

\* the choices open to one generate_content_blocks call whose _uid draws
\* are among draws
MockChoicesWith(topic, strat, visited, num_groups, draws) ==
    [media_types : NextTypeRuns(NewTracker(<<>>), num_groups),
     texts : PickTextRuns(ResolveMainTopic(topic), strat, {}, num_groups),
     uids : draws,
     nodes : NextNodeOutcomes(ResolveMainTopic(topic), strat, visited)]

\* the choices open to one generate_content_blocks call
MockChoices(topic, strat, visited, num_groups) ==
    MockChoicesWith(topic, strat, visited, num_groups, [1..num_groups -> UidDraws])

-----------------------------------------------------------------------------
(* Specification of one generate_content_blocks call. *)

\* the topics requested: a main topic with every pool, a subtopic, a main
\* topic whose pivot pool holds one paragraph, and a topic the graph lacks
TopicInputs ==
    {"black-holes", "hawking-radiation", "crispr-gene-editing", "alien-technology"}

\* the visited lists sent: none, one that exhausts the branch list of
\* black-holes, one that exhausts the deeper and pivot lists of
\* crispr-gene-editing, and every node of the graph
VisitedInputs ==
    {{},
     {"black-holes", "neutron-stars", "hawking-radiation", "synthetic-biology"},
     {"prime-editing", "neural-networks", "quantum-mechanics"},
     DOMAIN NODES}

GenInit ==
    /\ TrackerIdle
    /\ ScoringIdle
    /\ topic_id \in TopicInputs
    /\ strategy \in VALID_STRATEGIES
    /\ visited_nodes \in VisitedInputs
    /\ plan = NoPlan
    /\ api_results = <<>>
    /\ content_blocks = <<>>
    /\ next_nodes = <<>>
    /\ graph = NoGraph
    /\ session_ids = {}
    /\ validated = NoResponse
    /\ errors = <<>>

\* the ids drawn in these calls: any short for the group id and for the id
\* of the text block, the short of the text block for the media block, whose
\* id has the media kind as prefix
GenDraws ==
    {d \in [1..NumGroups -> UidDraws] : \A i \in 1..NumGroups : d[i].media = d[i].text}

\* generate_content_blocks(topic_id, strategy, visited_nodes)
GenerateContentBlocks ==
    /\ pc = "idle"
    /\ \E c \in MockChoicesWith(topic_id, strategy, visited_nodes, NumGroups, GenDraws) :
          LET r == GenerateContentBlocksResult(topic_id, c.media_types, c.texts,
                                               c.uids, c.nodes)
          IN  /\ content_blocks' = r.content_blocks
              /\ next_nodes' = r.next_nodes
    /\ pc' = "mock_done"
    /\ UNCHANGED <<concurrentVars, trackerVars, scoreVars, requestVars, graph,
                   session_ids, validateVars, raised>>

GenNext == GenerateContentBlocks

SpecGen == GenInit /\ [][GenNext]_vars

\* the ids of the nodes suggested
NodeIds(nodes) == {nodes[i].id : i \in 1..Len(nodes)}

\* C7: the next-node suggestions generate_content_blocks returns hold no
\* visited node, whether they come from the list of the requested strategy
\* or from the fallback over deeper, branch, pivot
C7_SuggestionsUnvisited ==
    pc = "mock_done" => NodeIds(next_nodes) \cap visited_nodes = {}

\* a call whose strategy list is all visited and whose suggestions come from
\* the deeper list, part of which is visited too
C7_Witness ==
    /\ pc = "mock_done"
    /\ topic_id = "black-holes"
    /\ strategy = "branch"
    /\ "neutron-stars" \in visited_nodes
    /\ "hawking-radiation" \in visited_nodes
    /\ NodeIds(next_nodes) = {"event-horizon", "singularity"}

\* C8: every block generate_content_blocks returns, for a main topic, a
\* subtopic or an unknown topic under any strategy, has an empty error list
\* from validate_content_block
C8_BlocksValidate ==
    pc = "mock_done" =>
        \A i \in 1..Len(content_blocks) : ValidateContentBlock(content_blocks[i]) = <<>>

\* a call on a subtopic that returned text blocks and media blocks with roles
\* of their own vocabularies and a media dict with url and source
C8_Witness ==
    /\ pc = "mock_done"
    /\ topic_id = "hawking-radiation"
    /\ Len(content_blocks) = 2 * NumGroups
    /\ \E i, j \in 1..Len(content_blocks) :
          /\ content_blocks[i].type = "text"
          /\ content_blocks[i].group_role \in VALID_GROUP_ROLES_TEXT
          /\ content_blocks[j].type = "wikipedia_image"
          /\ content_blocks[j].group_role \in VALID_GROUP_ROLES_MEDIA
          /\ {"url", "source"} \subseteq content_blocks[j].media.keys

\* the ids of the blocks, in order
BlockIds(blocks) == [i \in 1..Len(blocks) |-> blocks[i].id]

\* C9: the ids of the blocks of one generate_content_blocks result are
\* pairwise distinct, and none of them was returned by an earlier call of the
\* session
C9_BlockIdsUnique ==
    pc \in {"mock_done", "initial_done", "generate_done"} =>
        /\ Distinct(BlockIds(content_blocks))
        /\ Range(BlockIds(content_blocks)) \cap session_ids = {}

-----------------------------------------------------------------------------
(* A session in mock mode: the initial route, then the generate route on a  *)
(* node the reader moved to.                                                *)

\* the topics a session starts on (slugify of the topic the reader typed)
SessionTopics == {"crispr-gene-editing"}

\* the telemetry the reader's client sends with a generate request
SessionTelemetry == {NoTimeData}

SessionInit ==
    /\ TrackerIdle
    /\ ScoringIdle
    /\ topic_id \in SessionTopics
    /\ strategy = "deeper"
    /\ visited_nodes = {}
    /\ plan = NoPlan
    /\ api_results = <<>>
    /\ content_blocks = <<>>
    /\ next_nodes = <<>>
    /\ graph = NoGraph
    /\ session_ids = {}
    /\ validated = NoResponse
    /\ errors = <<>>

\* the node of the topic, a temporary one when the graph lacks it
InitialNode(topic) ==
    IF HasNode(topic) THEN NodeOf(topic) ELSE [id |-> topic, label |-> TitleOf(topic)]

\* the initial graph: the node of the topic, then one node and one edge from
\* the topic for every suggestion
InitialGraph(node, nodes) ==
    [nodes |-> <<[id |-> node.id, label |-> node.label]>>
                  \o [i \in 1..Len(nodes) |-> [id |-> nodes[i].id, label |-> nodes[i].label]],
     edges |-> [i \in 1..Len(nodes) |-> [source |-> node.id, target |-> nodes[i].id]]]

\* the digits of n, padded with zeros to a width
RECURSIVE Digits(_, _)
Digits(n, width) ==
    IF width = 0 THEN "" ELSE Digits(n \div 10, width - 1) \o ToString(n % 10)

\* the digits of a fraction without its trailing zeros, one digit at least
RECURSIVE FractionDigits(_, _)
FractionDigits(n, width) ==
    IF width = 1 \/ n % 10 # 0 THEN Digits(n, width)
    ELSE FractionDigits(n \div 10, width - 1)

\* the way Python renders a score, a float rounded to four decimals
ScoreRepr(v) == ToString(v \div 10000) \o "." \o FractionDigits(v % 10000, 4)

\* the dict generate_initial_content returns
InitialResult(blocks, g, nodes, strat) ==
    [isdict |-> TRUE, keys |-> {"content_blocks", "graph", "next_nodes", "strategy_used"},
     content_blocks |-> ListOf(blocks),
     graph |-> GraphOf({"nodes", "edges"}, ListOf(g.nodes)),
     next_nodes |-> ListOf(nodes), strategy_used |-> strat]

\* the dict the generate route builds
GenerateResult(blocks, nodes, strat, score) ==
    [isdict |-> TRUE,
     keys |-> {"content_blocks", "next_nodes", "strategy_used", "engagement_score"},
     content_blocks |-> ListOf(blocks), next_nodes |-> ListOf(nodes),
     strategy_used |-> strat, engagement_score |-> Score(score, ScoreRepr(score))]

\* POST /api/initial in mock mode: generate_initial_content(topic), then
\* validate_initial_response on the result, whose errors are only logged.
\* draws are the ids _uid may give the blocks.
InitialRoute(draws) ==
    /\ pc = "idle"
    /\ \E c \in MockChoicesWith(topic_id, "deeper", {}, NumGroups, draws) :
          LET r == GenerateContentBlocksResult(topic_id, c.media_types, c.texts,
                                               c.uids, c.nodes)
              g == InitialGraph(InitialNode(topic_id), r.next_nodes)
              result == InitialResult(r.content_blocks, g, r.next_nodes, "deeper")
          IN  /\ content_blocks' = r.content_blocks
              /\ next_nodes' = r.next_nodes
              /\ graph' = g
              /\ validated' = result
              /\ errors' = ValidateInitialResponse(result).errors
    /\ strategy' = "deeper"
    /\ strategy_used' = "deeper"
    /\ pc' = "initial_done"
    /\ UNCHANGED <<concurrentVars, trackerVars, time_data, td, engagement_score, topic_id,
                   visited_nodes, plan, api_results, session_ids, raised>>

InitialContent == InitialRoute([1..NumGroups -> UidDraws])

\* POST /api/generate in mock mode for current_node = node, time_data =
\* sent and visited_nodes = visited: sanitize, score, select the strategy,
\* generate_content_blocks, then validate_response on the result, whose
\* errors are only logged.  An exception leaves the try block (the route
\* answers 500).  The route reads nothing but its request.  draws are the
\* ids _uid may give the blocks.
GenerateRoute(node, sent, visited, draws) ==
    LET clean == SanitizeTimeData(sent)
    IN  \E r \in (IF clean.exc # "none" THEN {[exc |-> clean.exc, value |-> 0]}
                   ELSE ComputeEngagementScore(AsDict(clean.value))) :
          /\ time_data' = sent
          /\ td' = clean.value
          /\ engagement_score' = r.value
          /\ raised' = r.exc
          /\ topic_id' = node
          /\ visited_nodes' = visited
          /\ IF r.exc # "none"
             THEN /\ strategy_used' = None
                  /\ content_blocks' = <<>>
                  /\ next_nodes' = <<>>
                  /\ UNCHANGED <<strategy, validateVars>>
             ELSE \E c \in MockChoicesWith(node, SelectStrategy(r.value), visited,
                                           NumGroups, draws) :
                     LET o == GenerateContentBlocksResult(node, c.media_types,
                                                          c.texts, c.uids, c.nodes)
                         result == GenerateResult(o.content_blocks, o.next_nodes,
                                                  SelectStrategy(r.value), r.value)
                     IN  /\ strategy' = SelectStrategy(r.value)
                         /\ strategy_used' = SelectStrategy(r.value)
                         /\ content_blocks' = o.content_blocks
                         /\ next_nodes' = o.next_nodes
                         /\ validated' = result
                         /\ errors' = ValidateResponse(result).errors

\* a generate request for a node the reader chose among the suggestions (or
\* the node they are on), the nodes seen so far sent as visited
Generate ==
    /\ pc = "initial_done"
    /\ \E node \in NodeIds(next_nodes) \cup {topic_id}, sent \in SessionTelemetry :
          GenerateRoute(node, sent, visited_nodes \cup {topic_id},
                        [1..NumGroups -> UidDraws])
    /\ session_ids' = session_ids \cup Range(BlockIds(content_blocks))
    /\ pc' = "generate_done"
    /\ UNCHANGED <<concurrentVars, trackerVars, plan, api_results, graph>>

SessionNext == InitialContent \/ Generate

SpecSession == SessionInit /\ [][SessionNext]_vars

\* two blocks of one result carry the same id
C9_DuplicateWithinResult ==
    /\ pc = "initial_done"
    /\ ~Distinct(BlockIds(content_blocks))

-----------------------------------------------------------------------------
(* Live content assembly: generate_content_with_claude and                  *)
(* generate_content_blocks_live.  A group of a plan is [isdict, keys, text, *)
(* group_role_text, media_request, group_role_media]; a media request is    *)
(* [keys, type].                                                            *)

\* a group dict of a plan
Group(keys, text, group_role_text, media_keys, media_type, group_role_media) ==
    [isdict |-> TRUE, keys |-> keys, text |-> text, group_role_text |-> group_role_text,
     media_request |-> [keys |-> media_keys, type |-> media_type],
     group_role_media |-> group_role_media]

\* an item of the groups list that is a string
StrItem ==
    [isdict |-> FALSE, keys |-> {}, text |-> "", group_role_text |-> "",
     media_request |-> [keys |-> {}, type |-> ""], group_role_media |-> ""]

\* generate_content_with_claude: None without an available client; else the
\* result of generate_json when it is a non-empty dict with a "groups" key,
\* None otherwise.  TRUE when a plan is returned.
GenerateContentWithClaude(p) ==
    /\ p.client = "available"
    /\ p.result = "dict"
    /\ p.keys # {}
    /\ "groups" \in p.keys

\* the exception the loops over the plan end in: iterating None is a
\* TypeError, .get on a string (an item of a string or of the list) an
\* AttributeError
PlanException(p) ==
    CASE p.groups.kind = "NoneType" -> "TypeError"
      [] p.groups.kind = "str"      -> "AttributeError"
      [] \E i \in 1..Len(p.groups.items) : ~p.groups.items[i].isdict -> "AttributeError"
      [] OTHER -> "none"

\* the text a plan gives as block content
PlanText(text) == Paragraph("plan", "", "", 0, text)

\* the media dict a provider's client returns
ProviderMedia(media_type, topic_label) ==
    [isdict |-> TRUE, template |-> "provider:" \o media_type, label |-> topic_label,
     keys |-> {"url", "source", "attribution"}]

\* what the call of a provider's client gives: a media dict, None, an
\* exception, or no call because no client is configured
ApiOutcomes == {"dict", "None", "raises", "no_client"}

\* _resolve_media that returns what the provider call left: None after a
\* failure
ResolveMediaNoFallback(media_type, topic_label, api_result) ==
    IF media_type \in Range(MEDIA_TYPES) /\ api_result = "dict"
    THEN ProviderMedia(media_type, topic_label)
    ELSE NoMedia

\* _resolve_media(media_request, topic_label, api_clients): the provider's
\* result when the type has a provider and its client answers, the mock media
\* when there is no client, it answers None or it raises (the exception is
\* caught and logged)
ResolveMedia(media_type, topic_label, api_result) ==
    IF media_type \in Range(MEDIA_TYPES) /\ api_result = "dict"
    THEN ProviderMedia(media_type, topic_label)
    ELSE GenerateMockMedia(media_type, topic_label)

\* the media type a group asks for
RequestedType(group_data) ==
    IF "type" \in group_data.media_request.keys THEN group_data.media_request.type
    ELSE "unsplash"

\* the loop pass with "if text is not None" for "if text"
PlanGroupBlocksNonNull(group_data, topic_label, uid, media) ==
    LET group_id == Uid("grp", uid.grp)
        text == IF "text" \in group_data.keys THEN group_data.text ELSE None
        group_role_text == IF "group_role_text" \in group_data.keys
                           THEN group_data.group_role_text ELSE "explanation"
        has_request == "media_request" \in group_data.keys
                           /\ group_data.media_request.keys # {}
        media_type == RequestedType(group_data)
        group_role_media == IF "group_role_media" \in group_data.keys
                            THEN group_data.group_role_media ELSE "visual"
    IN  (IF text # None
         THEN <<TextBlock(Uid("text", uid.text), PlanText(text), group_id, group_role_text)>>
         ELSE <<>>)
        \o (IF has_request
            THEN <<MediaBlock(Uid(media_type, uid.media), media_type,
                              MediaContent(topic_label, media_type), group_id,
                              group_role_media, media)>>
            ELSE <<>>)

\* one pass of the loop over the groups of a plan: a text block when the
\* group has a text, a media block when it has a media request
PlanGroupBlocks(group_data, topic_label, uid, media) ==
    LET group_id == Uid("grp", uid.grp)
        text == IF "text" \in group_data.keys THEN group_data.text ELSE None
        group_role_text == IF "group_role_text" \in group_data.keys
                           THEN group_data.group_role_text ELSE "explanation"
        has_request == "media_request" \in group_data.keys
                           /\ group_data.media_request.keys # {}
        media_type == RequestedType(group_data)
        group_role_media == IF "group_role_media" \in group_data.keys
                            THEN group_data.group_role_media ELSE "visual"
    IN  (IF Truthy(text)
         THEN <<TextBlock(Uid("text", uid.text), PlanText(text), group_id, group_role_text)>>
         ELSE <<>>)
        \o (IF has_request
            THEN <<MediaBlock(Uid(media_type, uid.media), media_type,
                              MediaContent(topic_label, media_type), group_id,
                              group_role_media, media)>>
            ELSE <<>>)

\* blocks after the loop over the groups of a plan
RECURSIVE ExecutePlan(_, _, _, _)
ExecutePlan(groups, topic_label, uids, apis) ==
    IF groups = <<>> THEN <<>>
    ELSE PlanGroupBlocks(Head(groups), topic_label, Head(uids),
                         ResolveMedia(RequestedType(Head(groups)), topic_label, Head(apis)))
            \o ExecutePlan(Tail(groups), topic_label, Tail(uids), Tail(apis))

\* the first n elements of s
Take(s, n) == SubSeq(s, 1, Min(n, Len(s)))

\* the suggestions of a live path that keeps the visited ids of the plan
LiveNextNodesKeepVisited(p, topic, strat, visited) ==
    LET claude_next == IF "next_nodes" \in p.keys THEN p.next_nodes ELSE <<>>
        kept == FilterSeq(claude_next, {nid \in Range(claude_next) : HasNode(nid)})
    IN  [i \in 1..Len(kept) |-> NodeOf(kept[i])]

\* the live suggestions with next_nodes.insert(0, ...) for next_nodes.append
LiveNextNodesNewestFirst(p, topic, strat, visited) ==
    LET claude_next == IF "next_nodes" \in p.keys THEN p.next_nodes ELSE <<>>
        kept == FilterSeq(claude_next,
                          {nid \in Range(claude_next) : nid \notin visited /\ HasNode(nid)})
        main_topic == IF topic \in DOMAIN TOPIC_GRAPH THEN topic
                      ELSE FindTopicForNode(topic)
    IN  IF kept # <<>> THEN [i \in 1..Len(kept) |-> NodeOf(kept[Len(kept) + 1 - i])]
        ELSE IF main_topic # None
        THEN Take(GetSubtopicNodes(main_topic, strat, visited), 3)
        ELSE <<>>

\* the suggestions of the live path: the ids of the plan that are unvisited
\* nodes of the graph; when there are none, the first three unvisited
\* subtopics of the strategy (none for a topic outside the graph)
LiveNextNodes(p, topic, strat, visited) ==
    LET claude_next == IF "next_nodes" \in p.keys THEN p.next_nodes ELSE <<>>
        kept == FilterSeq(claude_next,
                          {nid \in Range(claude_next) : nid \notin visited /\ HasNode(nid)})
        main_topic == IF topic \in DOMAIN TOPIC_GRAPH THEN topic
                      ELSE FindTopicForNode(topic)
    IN  IF kept # <<>> THEN [i \in 1..Len(kept) |-> NodeOf(kept[i])]
        ELSE IF main_topic # None
        THEN Take(GetSubtopicNodes(main_topic, strat, visited), 3)
        ELSE <<>>

\* the choices open to the execution of a plan: the ids drawn per group
PlanChoices(p) == [uids : [1..Len(p.groups.items) -> UidDraws]]

-----------------------------------------------------------------------------
(* Specification of one generate_content_blocks_live call. *)

\* a group as the system prompt asks for it, one without text whose media
\* type and roles are outside the vocabularies, and one of defaults only
GoodGroup ==
    Group({"text", "group_role_text", "media_request", "group_role_media"},
          "Hawking radiation is thermal.", "explanation", {"type", "query"},
          "wikimedia", "diagram")

OddGroup ==
    Group({"media_request", "group_role_media"}, "", "", {"type"}, "video", "narrative")

BareGroup == Group({"text", "media_request"}, "Space is big.", "", {"query"}, "", "")

\* a group whose text is the empty string and that asks for no media
BlankGroup == Group({"text", "group_role_text"}, "", "explanation", {}, "", "")

\* what the orchestrator may answer
PlanInputs ==
    {NoPlan,
     Plan("unavailable", "NoneType", {}, "absent", <<>>, <<>>),
     Plan("available", "NoneType", {}, "absent", <<>>, <<>>),
     Plan("available", "dict", {}, "absent", <<>>, <<>>),
     Plan("available", "list", {}, "absent", <<>>, <<>>),
     Plan("available", "dict", {"next_nodes"}, "absent", <<>>, <<"event-horizon">>),
     Plan("available", "dict", {"groups"}, "NoneType", <<>>, <<>>),
     Plan("available", "dict", {"groups", "next_nodes"}, "str", <<>>, <<"singularity">>),
     Plan("available", "dict", {"groups"}, "list", <<>>, <<>>),
     Plan("available", "dict", {"groups"}, "list", <<GoodGroup, StrItem>>, <<>>),
     Plan("available", "dict", {"groups", "next_nodes"}, "list", <<GoodGroup, BareGroup>>,
          <<"black-holes", "no-such-node", "event-horizon", "neutron-stars">>),
     Plan("available", "dict", {"groups"}, "list", <<OddGroup>>, <<>>),
     Plan("available", "dict", {"groups"}, "list", <<BlankGroup, GoodGroup>>, <<>>)}

\* the topics asked live: a main topic, a subtopic, a topic the graph lacks
LiveTopicInputs == {"black-holes", "hawking-radiation", "alien-technology"}

\* the visited lists sent live
LiveVisitedInputs ==
    {{}, {"black-holes", "hawking-radiation"},
     {"black-holes", "neutron-stars", "hawking-radiation", "synthetic-biology"}}

LiveInit ==
    /\ TrackerIdle
    /\ ScoringIdle
    /\ topic_id \in LiveTopicInputs
    /\ strategy \in VALID_STRATEGIES
    /\ visited_nodes \in LiveVisitedInputs
    /\ plan \in PlanInputs
    /\ api_results \in [1..Len(plan.groups.items) -> ApiOutcomes]
    /\ content_blocks = <<>>
    /\ next_nodes = <<>>
    /\ graph = NoGraph
    /\ session_ids = {}
    /\ validated = NoResponse
    /\ errors = <<>>

\* generate_content_blocks_live(topic_id, strategy, visited_nodes, ...):
\* without a plan, what generate_content_blocks returns; with one, its groups
\* executed, unless the loop over them raises
GenerateContentBlocksLive ==
    /\ pc = "idle"
    /\ IF ~GenerateContentWithClaude(plan)
       THEN /\ \E c \in MockChoices(topic_id, strategy, visited_nodes, NumGroups) :
                  LET r == GenerateContentBlocksResult(topic_id, c.media_types, c.texts,
                                                       c.uids, c.nodes)
                  IN  /\ content_blocks' = r.content_blocks
                      /\ next_nodes' = r.next_nodes
            /\ UNCHANGED raised
       ELSE IF PlanException(plan) # "none"
       THEN /\ raised' = PlanException(plan)
            /\ UNCHANGED <<content_blocks, next_nodes>>
       ELSE /\ \E c \in PlanChoices(plan) :
                  content_blocks' =
                      ExecutePlan(plan.groups.items, LabelOf(topic_id), c.uids, api_results)
            /\ next_nodes' = LiveNextNodes(plan, topic_id, strategy, visited_nodes)
            /\ UNCHANGED raised
    /\ pc' = "live_done"
    /\ UNCHANGED <<concurrentVars, trackerVars, scoreVars, requestVars, graph,
                   session_ids, validateVars>>

LiveNext == GenerateContentBlocksLive

SpecLive == LiveInit /\ [][LiveNext]_vars

\* the orchestrator is unavailable, returned nothing, or returned a plan that
\* has no groups list
NoGroupsList(p) ==
    \/ p.client # "available"
    \/ p.result # "dict"
    \/ "groups" \notin p.keys
    \/ p.groups.kind # "list"

\* (content_blocks, next_nodes) is a pair generate_content_blocks may return
\* for the request
IsMockResult ==
    \E c \in MockChoices(topic_id, strategy, visited_nodes, NumGroups) :
        [content_blocks |-> content_blocks, next_nodes |-> next_nodes]
            = GenerateContentBlocksResult(topic_id, c.media_types, c.texts, c.uids, c.nodes)

\* C10: when the orchestrator is unavailable, returns nothing or returns a
\* plan without a groups list, generate_content_blocks_live raises nothing and
\* returns what generate_content_blocks returns for the same topic, strategy
\* and visited nodes: a non-empty list of blocks that all validate
C10_LiveFallsBackToMock ==
    (pc = "live_done" /\ NoGroupsList(plan)) =>
        /\ raised = "none"
        /\ IsMockResult
        /\ content_blocks # <<>>
        /\ \A i \in 1..Len(content_blocks) : ValidateContentBlock(content_blocks[i]) = <<>>

\* the orchestrator answered {"groups": null} and the call raised
C10_RaisedOnNullGroups ==
    /\ pc = "live_done"
    /\ plan.groups.kind = "NoneType"
    /\ raised = "TypeError"

-----------------------------------------------------------------------------
(* Claims about the execution of a plan. *)

\* the live call executed the groups of a plan
PlanExecuted ==
    /\ pc = "live_done"
    /\ GenerateContentWithClaude(plan)
    /\ PlanException(plan) = "none"

\* the group gives a text / asks for media
HasText(group_data) == "text" \in group_data.keys /\ Truthy(group_data.text)

HasRequest(group_data) ==
    "media_request" \in group_data.keys /\ group_data.media_request.keys # {}

\* the number of blocks the groups before group k stand for
RECURSIVE Offset(_, _)
Offset(groups, k) ==
    IF k <= 1 THEN 0
    ELSE Offset(groups, k - 1)
            + (IF HasText(groups[k - 1]) THEN 1 ELSE 0)
            + (IF HasRequest(groups[k - 1]) THEN 1 ELSE 0)

\* the positions of the text block and of the media block of group k
TextPos(groups, k) == Offset(groups, k) + 1

MediaPos(groups, k) == Offset(groups, k + 1)

\* the provider was called for the group and raised or returned None
ProviderFailed(k) == api_results[k] \in {"None", "raises"}

\* C11: when the provider call of a group raises or returns nothing, the
\* media block of that group is emitted with the payload of the mock
\* generator for the requested kind (url and source included), nothing is
\* raised, and every group has its blocks at their places: its text block
\* with the text of the plan, its media block with the requested kind and,
\* where the provider answered, the provider's payload
C11_ProviderFailureSubstituted ==
    PlanExecuted =>
        LET groups == plan.groups.items
            label  == LabelOf(topic_id)
        IN  /\ raised = "none"
            /\ Len(content_blocks) = Offset(groups, Len(groups) + 1)
            /\ \A k \in 1..Len(groups) :
                  /\ HasText(groups[k]) =>
                        /\ content_blocks[TextPos(groups, k)].type = "text"
                        /\ content_blocks[TextPos(groups, k)].content
                              = PlanText(groups[k].text)
                  /\ HasRequest(groups[k]) =>
                        LET b == content_blocks[MediaPos(groups, k)]
                            media_type == RequestedType(groups[k])
                        IN  /\ b.type = media_type
                            /\ ProviderFailed(k) =>
                                  /\ b.media = GenerateMockMedia(media_type, label)
                                  /\ {"url", "source"} \subseteq b.media.keys
                            /\ (api_results[k] = "dict" /\ media_type \in Range(MEDIA_TYPES))
                                  => b.media = ProviderMedia(media_type, label)

\* a plan of two groups was executed, the provider of the first raised and
\* the provider of the second answered
C11_Witness ==
    /\ PlanExecuted
    /\ api_results = <<"raises", "dict">>
    /\ Len(content_blocks) = 4
    /\ content_blocks[2].media = GenerateMockMedia("wikimedia", LabelOf(topic_id))
    /\ content_blocks[4].media = ProviderMedia("unsplash", LabelOf(topic_id))

\* ---------------------------------------------------------------------
\* The validators, called on any value a caller can hand them

\* a value that is no dict (a list, a string, None)
NotADict == [isdict |-> FALSE, keys |-> {}]

\* the media field of a block under validation
MediaInputs ==
    {NoMedia,
     [isdict |-> TRUE, template |-> "unsplash", label |-> "Black Holes",
      keys |-> {"url", "source"}],
     [isdict |-> TRUE, template |-> "unsplash", label |-> "Black Holes", keys |-> {"url"}]}

\* the types of the blocks under validation: the known ones and an unknown one
BlockTypes == {"text", "hologram"} \cup Range(MEDIA_TYPES)

\* the roles of the blocks under validation: both vocabularies, a string of
\* neither, the falsy values and a list
RoleValues ==
    VALID_GROUP_ROLES_TEXT \cup VALID_GROUP_ROLES_MEDIA \cup {"narrative", "", None, ListValue}

BlockKeys ==
    {{"id", "type", "content", "group_id", "group_role", "media"},
     {"id", "type", "content", "group_id", "group_role"},
     {"id", "type", "content", "group_id"},
     {"id", "content"}}

BlockInputs ==
    {[isdict |-> TRUE, keys |-> ks, id |-> "3f9a1c07", type |-> t,
      content |-> "Black holes bend light.", group_id |-> "b2e45d10",
      group_role |-> r, media |-> m] :
        ks \in BlockKeys, t \in BlockTypes, r \in RoleValues, m \in MediaInputs}

\* the block lists of the responses under validation
BlockListInputs ==
    {NotAList, ListOf(<<>>),
     ListOf(<<TextBlock("3f9a1c07", "Black holes bend light.", "b2e45d10", "explanation")>>),
     ListOf(<<NotADict,
              TextBlock("3f9a1c07", "Black holes bend light.", "b2e45d10", "visual")>>),
     ListOf(<<TextBlock("3f9a1c07", "Black holes bend light.", "b2e45d10", "caption"),
              TextBlock("b2e45d10", "Black holes bend light.", "b2e45d10", ListValue)>>)}

GraphInputs ==
    {NotAGraph, GraphOf({}, NotAList), GraphOf({"nodes", "edges"}, NotAList),
     GraphOf({"nodes", "edges"}, ListOf(<<>>)),
     GraphOf({"nodes"}, ListOf(<<[id |-> "black-holes", label |-> "Black Holes"]>>))}

ResponseKeys ==
    {{"content_blocks", "next_nodes", "strategy_used", "engagement_score", "graph"},
     {"content_blocks", "graph", "next_nodes", "strategy_used"},
     {"content_blocks", "next_nodes", "engagement_score"},
     {}}

ResponseInputs ==
    {[isdict |-> TRUE, keys |-> ks, content_blocks |-> bl, next_nodes |-> nn,
      strategy_used |-> st, engagement_score |-> sc, graph |-> g] :
        ks \in ResponseKeys, bl \in BlockListInputs, nn \in {NotAList, ListOf(<<>>)},
        st \in {"deeper", "pivot", "sideways", None, ListValue},
        sc \in {Score(7000, "0.7"), Score(15000, "1.5"), NotANumber},
        g \in GraphInputs}

ValidatorInputs == {NotADict} \cup BlockInputs \cup ResponseInputs

ValidateInit ==
    /\ TrackerIdle
    /\ ScoringIdle
    /\ topic_id = None
    /\ strategy = None
    /\ visited_nodes = {}
    /\ plan = NoPlan
    /\ api_results = <<>>
    /\ content_blocks = <<>>
    /\ next_nodes = <<>>
    /\ graph = NoGraph
    /\ session_ids = {}
    /\ validated \in ValidatorInputs
    /\ errors = <<>>

\* validate_content_block(block)
CallValidateContentBlock ==
    /\ pc = "idle"
    /\ raised' = ValidateContentBlockRaises(validated)
    /\ errors' = IF raised' = "none" THEN ValidateContentBlock(validated) ELSE <<>>
    /\ pc' = "block_validated"
    /\ UNCHANGED <<concurrentVars, trackerVars, scoreVars, requestVars, responseVars, validated>>

\* validate_response(response)
CallValidateResponse ==
    /\ pc = "idle"
    /\ raised' = ValidateResponse(validated).exc
    /\ errors' = ValidateResponse(validated).errors
    /\ pc' = "response_validated"
    /\ UNCHANGED <<concurrentVars, trackerVars, scoreVars, requestVars, responseVars, validated>>

\* validate_initial_response(response)
CallValidateInitialResponse ==
    /\ pc = "idle"
    /\ raised' = ValidateInitialResponse(validated).exc
    /\ errors' = ValidateInitialResponse(validated).errors
    /\ pc' = "initial_validated"
    /\ UNCHANGED <<concurrentVars, trackerVars, scoreVars, requestVars, responseVars, validated>>

ValidateNext ==
    \/ CallValidateContentBlock
    \/ CallValidateResponse
    \/ CallValidateInitialResponse

SpecValidate == ValidateInit /\ [][ValidateNext]_vars

\* a validator has returned or raised
Validated == pc \in {"block_validated", "response_validated", "initial_validated"}

\* C12: none of the three validators raises, whatever value it is handed
C12_ValidatorsNeverRaise == Validated => raised = "none"

\* validate_response was handed a dict whose strategy_used is a list, and the
\* lookup of the strategy in VALID_STRATEGIES raised
C12_RaisedOnListStrategy ==
    /\ pc = "response_validated"
    /\ validated \in ResponseInputs
    /\ "strategy_used" \in validated.keys
    /\ validated.strategy_used = ListValue
    /\ raised = "TypeError"

\* the role vocabulary of a block type
Vocabulary(type) ==
    IF type = "text" THEN VALID_GROUP_ROLES_TEXT ELSE VALID_GROUP_ROLES_MEDIA

\* validate_content_block has handled a text or media block
BlockValidated ==
    /\ pc = "block_validated"
    /\ validated \in BlockInputs
    /\ "type" \in validated.keys
    /\ validated.type \in {"text"} \cup Range(MEDIA_TYPES)

\* the role of the block is none of the vocabulary of its type
RoleOutsideVocabulary ==
    \/ "group_role" \notin validated.keys
    \/ validated.group_role \notin Vocabulary(validated.type)

\* C13: validate_content_block returns an error for every text or media
\* block whose group_role is not one of the vocabulary of its type
C13_RoleOutsideVocabularyReported ==
    (BlockValidated /\ RoleOutsideVocabulary) => (raised = "none" /\ errors # <<>>)

\* a complete text block whose group_role is the empty string was validated
\* and nothing was reported
C13_EmptyRoleAccepted ==
    /\ BlockValidated
    /\ validated.type = "text"
    /\ validated.keys = {"id", "type", "content", "group_id", "group_role"}
    /\ validated.group_role = ""
    /\ raised = "none"
    /\ errors = <<>>

-----------------------------------------------------------------------------
(* Specification of one POST /api/initial request, in mock or in live mode. *)

\* the topics asked first: a main topic, a subtopic, a topic the graph lacks
InitialTopicInputs == {"crispr-gene-editing", "hawking-radiation", "alien-technology"}

InitialInit ==
    /\ TrackerIdle
    /\ ScoringIdle
    /\ topic_id \in InitialTopicInputs
    /\ strategy = None
    /\ visited_nodes = {}
    /\ plan \in PlanInputs
    /\ api_results \in [1..Len(plan.groups.items) -> ApiOutcomes]
    /\ content_blocks = <<>>
    /\ next_nodes = <<>>
    /\ graph = NoGraph
    /\ session_ids = {}
    /\ validated = NoResponse
    /\ errors = <<>>

\* the initial graph of the live path: the node of the topic, then one node
\* and one edge for every suggestion that is not the topic itself
InitialGraphLive(node, nodes) ==
    LET others == FilterSeq(nodes, {n \in Range(nodes) : n.id # node.id})
    IN  [nodes |-> <<[id |-> node.id, label |-> node.label]>> \o others,
         edges |-> [i \in 1..Len(others) |-> [source |-> node.id, target |-> others[i].id]]]

\* what the initial route does with the blocks and suggestions of the live
\* path: the graph, the result dict, validate_initial_response on it
InitialLiveAnswer(blocks, nodes) ==
    LET g      == InitialGraphLive(InitialNode(topic_id), nodes)
        result == InitialResult(blocks, g, nodes, "deeper")
    IN  /\ content_blocks' = blocks
        /\ next_nodes' = nodes
        /\ graph' = g
        /\ validated' = result
        /\ raised' = ValidateInitialResponse(result).exc
        /\ errors' = ValidateInitialResponse(result).errors
        /\ strategy_used' = IF raised' = "none" THEN "deeper" ELSE strategy_used

\* POST /api/initial in live mode: generate_initial_content_live(topic),
\* which runs generate_content_blocks_live for the strategy "deeper" with
\* nothing visited.  An exception leaves the try block (the route answers
\* 500 and returns no strategy).
InitialContentLive ==
    /\ pc = "idle"
    /\ IF ~GenerateContentWithClaude(plan)
       THEN \E c \in MockChoices(topic_id, "deeper", {}, NumGroups) :
               LET r == GenerateContentBlocksResult(topic_id, c.media_types, c.texts,
                                                    c.uids, c.nodes)
               IN  InitialLiveAnswer(r.content_blocks, r.next_nodes)
       ELSE IF PlanException(plan) # "none"
       THEN /\ raised' = PlanException(plan)
            /\ UNCHANGED <<strategy_used, content_blocks, next_nodes, graph, validateVars>>
       ELSE \E c \in PlanChoices(plan) :
               InitialLiveAnswer(
                   ExecutePlan(plan.groups.items, LabelOf(topic_id), c.uids, api_results),
                   LiveNextNodes(plan, topic_id, "deeper", {}))
    /\ strategy' = "deeper"
    /\ pc' = "initial_live_done"
    /\ UNCHANGED <<concurrentVars, trackerVars, time_data, td, engagement_score, topic_id,
                   visited_nodes, plan, api_results, session_ids>>

InitialRouteNext == InitialContent \/ InitialContentLive

SpecInitial == InitialInit /\ [][InitialRouteNext]_vars

\* C14: whatever the topic, the mode and the orchestrator's answer, the
\* initial request returns a result whose strategy_used is "deeper"
C14_InitialStrategyDeeper ==
    pc \in {"initial_done", "initial_live_done"} =>
        (raised = "none" /\ strategy_used = "deeper" /\ validated.strategy_used = "deeper")

\* the live initial request met an orchestrator answer whose groups are null
\* and ended with an exception instead of a result
C14_RaisedOnNullGroups ==
    /\ pc = "initial_live_done"
    /\ plan.groups.kind = "NoneType"
    /\ raised = "TypeError"
    /\ strategy_used = None

-----------------------------------------------------------------------------
(* Specification of a session whose caller sends every suggestion back as
   visited, the way the simulated frontend session does. *)

\* the telemetry of a reader whose score is 0.65, of one whose score is 0.35,
\* of one who skims, and none at all
Telemetry(t, s, c, sec, tps) ==
    [type |-> "dict",
     fields |-> [current_node_id          |-> JNode("str", "black-holes"),
                 total_time_on_node_ms    |-> JInt(t),
                 scroll_events            |-> JInt(s),
                 go_deeper_clicks         |-> JInt(c),
                 sections_in_current_node |-> JInt(sec),
                 time_per_section_ms      |-> JInt(tps)]]

AccumulateTelemetry ==
    {Telemetry(60000, 10, 0, 3, 15000), Telemetry(60000, 0, 0, 2, 7500),
     Telemetry(12345, 3, 0, 3, 4115), NoTimeData}

AccumulateTopics == {"black-holes"}

\* the ids of the blocks of these sessions: every group draws the same three
AccumulateDraws ==
    {[i \in 1..NumGroups |-> [grp |-> "3f9a1c07", text |-> "b2e45d10", media |-> "3f9a1c07"]]}

AccumulateInit ==
    /\ TrackerIdle
    /\ ScoringIdle
    /\ topic_id \in AccumulateTopics
    /\ strategy = "deeper"
    /\ visited_nodes = {}
    /\ plan = NoPlan
    /\ api_results = <<>>
    /\ content_blocks = <<>>
    /\ next_nodes = <<>>
    /\ graph = NoGraph
    /\ session_ids = {}
    /\ validated = NoResponse
    /\ errors = <<>>

\* a generate request of a caller who adds to visited_nodes the node it is
\* on and every suggestion the call before gave it
GenerateAccumulated ==
    /\ pc \in {"initial_done", "generate_done"}
    /\ \E node \in NodeIds(next_nodes) \cup {topic_id}, sent \in AccumulateTelemetry :
          GenerateRoute(node, sent, visited_nodes \cup {topic_id} \cup NodeIds(next_nodes),
                        AccumulateDraws)
    /\ session_ids' = session_ids \cup Range(BlockIds(content_blocks))
    /\ pc' = "generate_done"
    /\ UNCHANGED <<concurrentVars, trackerVars, plan, api_results, graph>>

\* the initial request of such a session
InitialAccumulated == InitialRoute(AccumulateDraws)

AccumulateNext == InitialAccumulated \/ GenerateAccumulated

SpecAccumulate == AccumulateInit /\ [][AccumulateNext]_vars

\* C15: when the caller sends back every suggestion it was given, a generate
\* call returns no suggestion that is in its visited_nodes, so none that an
\* earlier call of the session returned
C15_NoSuggestionTwice ==
    [][(pc' = "generate_done" /\ raised' = "none") =>
           /\ NodeIds(next_nodes) \subseteq visited_nodes'
           /\ NodeIds(next_nodes') \cap visited_nodes' = {}]_vars

\* a third request of the session got a suggestion although the calls
\* before it had suggested four nodes
C15_Witness ==
    /\ pc = "generate_done"
    /\ raised = "none"
    /\ Cardinality(visited_nodes) >= 5
    /\ next_nodes # <<>>

-----------------------------------------------------------------------------
(* Windows of the sequence a tracker emits. *)

\* the kinds emitted by the calls i .. i + k - 1
Window(i, k) == {out[j] : j \in i..(i + k - 1)}

\* C16: with K > 1 pairwise-distinct configured kinds, every K consecutive
\* values returned by next_type() hold every configured kind, wherever the
\* window starts, refills of the queue included
C16_EveryWindowCoversKinds ==
    (Len(tracker.types) >= 2 /\ Distinct(tracker.types))
        => \A i \in 1..(Len(out) - Len(tracker.types) + 1) :
              Window(i, Len(tracker.types)) = Range(tracker.types)

\* a tracker of three kinds was refilled by a shuffle, and its third, fourth
\* and fifth values hold two kinds only
C16_WindowAcrossRefillMissesKind ==
    /\ tracker.types = SubSeq(MEDIA_TYPES, 1, 3)
    /\ Len(out) >= 5
    /\ Window(3, 3) # Range(tracker.types)

-----------------------------------------------------------------------------
(* Topics the graph does not know. *)

\* the topic is no main topic and no subtopic of one
UnknownTopic(topic) ==
    topic \notin DOMAIN TOPIC_GRAPH /\ FindTopicForNode(topic) = None

\* the generic pool of a strategy with the label of a topic in place of
\* every token
GenericTexts(topic, strat) ==
    {Paragraph("generic", "", strat, i, LabelOf(topic)) : i \in 1..Len(GENERIC_POOL(strat))}

\* C17: for a topic that is neither a main topic nor a subtopic,
\* generate_content_blocks raises nothing and returns blocks, and every text
\* block holds a paragraph of the generic pool in which the label of the
\* topic stands for the token
C17_UnknownTopicGeneric ==
    (pc = "mock_done" /\ UnknownTopic(topic_id)) =>
        /\ raised = "none"
        /\ content_blocks # <<>>
        /\ \A i \in 1..Len(content_blocks) :
              content_blocks[i].type = "text" =>
                  /\ content_blocks[i].content \in GenericTexts(topic_id, strategy)
                  /\ content_blocks[i].content.label # "{label}"

\* a call for "alien-technology" under branch returned the two paragraphs of
\* the generic branch pool with the label "Alien Technology"
C17_Witness ==
    /\ pc = "mock_done"
    /\ topic_id = "alien-technology"
    /\ strategy = "branch"
    /\ Len(content_blocks) = 2 * NumGroups
    /\ content_blocks[1].content = Paragraph("generic", "", "branch", 2, "Alien Technology")
    /\ content_blocks[3].content = Paragraph("generic", "", "branch", 1, "Alien Technology")

-----------------------------------------------------------------------------
(* Where the suggestions of a request come from. *)

\* the unvisited ids of the subtopic list of the request's main topic for a
\* strategy
Unvisited(strat) ==
    Range(GetSubtopics(ResolveMainTopic(topic_id), strat)) \ visited_nodes

\* the unvisited ids of the list the mock path takes its suggestions from:
\* the list of the active strategy, or, when all of it is visited, the list
\* of the first of deeper, branch, pivot that has an unvisited node
MockCandidates ==
    IF Unvisited(strategy) # {} THEN Unvisited(strategy)
    ELSE IF Unvisited("deeper") # {} THEN Unvisited("deeper")
    ELSE IF Unvisited("branch") # {} THEN Unvisited("branch")
    ELSE Unvisited("pivot")

\* the unvisited graph nodes the orchestrator's plan names
PlanCandidates ==
    IF "next_nodes" \in plan.keys
    THEN {nid \in Range(plan.next_nodes) : HasNode(nid)} \ visited_nodes
    ELSE {}

\* a live call has returned
LiveReturned == pc = "live_done" /\ raised = "none"

\* C18 as stated: every suggestion of a request is an unvisited node of the
\* subtopic list of the owning main topic for the active strategy
C18_SuggestionsOfActiveStrategy ==
    LiveReturned => NodeIds(next_nodes) \subseteq Unvisited(strategy)

\* C18 with its sources named: no suggestion is visited; without a plan the
\* suggestions are of the active strategy's list or, when that has no
\* unvisited node, of the first list of deeper, branch, pivot that has one;
\* with a plan they are the unvisited graph nodes the plan names or, when it
\* names none, of the active strategy's list
C18_SuggestionsBySource ==
    LiveReturned =>
        /\ NodeIds(next_nodes) \cap visited_nodes = {}
        /\ IF ~GenerateContentWithClaude(plan)
           THEN NodeIds(next_nodes) \subseteq MockCandidates
           ELSE IF PlanCandidates # {}
           THEN NodeIds(next_nodes) = PlanCandidates
           ELSE NodeIds(next_nodes) \subseteq Unvisited(strategy)

\* a call under deeper with a plan that names the topic itself, an unknown
\* id, a node of the deeper list and a node of the branch list: the three
\* graph nodes are suggested
C18_Witness ==
    /\ LiveReturned
    /\ GenerateContentWithClaude(plan)
    /\ topic_id = "black-holes"
    /\ strategy = "deeper"
    /\ visited_nodes = {}
    /\ NodeIds(next_nodes) = {"black-holes", "event-horizon", "neutron-stars"}

-----------------------------------------------------------------------------
(* The limit on the suggestions of generate_content_blocks. *)

\* the candidate list of the call: the unvisited nodes before the limit
Candidates == NextNodeList(ResolveMainTopic(topic_id), strategy, visited_nodes)

\* C20: generate_content_blocks returns at most three suggestions: three
\* pairwise-distinct members of the candidate list when it holds more than
\* three nodes, else the whole candidate list
C20_AtMostThreeSuggestions ==
    pc = "mock_done" =>
        /\ Len(next_nodes) <= 3
        /\ IF Len(Candidates) > 3
           THEN /\ Len(next_nodes) = 3
                /\ Distinct(next_nodes)
                /\ Range(next_nodes) \subseteq Range(Candidates)
           ELSE next_nodes = Candidates

\* a call for crispr-gene-editing under branch with nothing visited: four
\* candidates, three of them returned, epigenetics left out
C20_Witness ==
    /\ pc = "mock_done"
    /\ topic_id = "crispr-gene-editing"
    /\ strategy = "branch"
    /\ visited_nodes = {}
    /\ Len(Candidates) = 4
    /\ NodeIds(next_nodes) = {"bioethics", "synthetic-biology", "gene-therapy"}

-----------------------------------------------------------------------------
(* Specification of two generate_content_blocks calls running concurrently,
   each in a thread of its own: the steps of the two calls interleave in any
   order.  assembly[r] holds the local variables of call r. *)

Requests == {1, 2}

\* the (topic_id, strategy) pairs the concurrent calls are made with
ConcurrentInputs ==
    {[topic_id |-> "black-holes", strategy |-> "deeper"],
     [topic_id |-> "crispr-gene-editing", strategy |-> "branch"]}

\* the ids _uid gives the blocks of a group in these runs
ConcurrentDraw == [grp |-> "3f9a1c07", text |-> "b2e45d10", media |-> "3f9a1c07"]

\* the tracker local of a call that has not built its tracker yet
NoTracker == [types |-> <<>>, queue |-> <<>>, last |-> None]

\* a call that has not started: its arguments, and no locals yet
Called(input) ==
    [pc |-> "idle", topic_id |-> input.topic_id, strategy |-> input.strategy,
     tracker |-> NoTracker, used_texts |-> {}, blocks |-> <<>>, next_nodes |-> <<>>]

ConcurrentInit ==
    /\ tracker = NewTracker(<<>>)
    /\ out = <<>>
    /\ attempts = 0
    /\ popped = None
    /\ ScoringIdle
    /\ NoRequest
    /\ assembly \in [Requests -> {Called(input) : input \in ConcurrentInputs}]

\* one pass of the loop over the groups run on a tracker all the calls share
LoopPassSharedTracker(a, r, text, shuffled) ==
    LET shared == IF a[1].tracker = NoTracker THEN NewTracker(<<>>) ELSE a[1].tracker
        res    == NextTypeOf(shared, shuffled)
    IN  [a EXCEPT ![1].tracker = res.tracker,
                  ![r].used_texts = @ \cup {text},
                  ![r].blocks = @ \o GroupBlocks(a[r].topic_id, res.media_type, text,
                                                 ConcurrentDraw)]

\* one pass of the loop over the groups in call r: next_type on the tracker
\* of the call, the text picked, the two blocks appended
LoopPass(a, r, text, shuffled) ==
    LET res == NextTypeOf(a[r].tracker, shuffled)
    IN  [a EXCEPT ![r].tracker = res.tracker,
                  ![r].used_texts = @ \cup {text},
                  ![r].blocks = @ \o GroupBlocks(a[r].topic_id, res.media_type, text,
                                                 ConcurrentDraw)]

\* call r starts: its own tracker, an empty block list, no used text
StartAssembly(r) ==
    /\ assembly[r].pc = "idle"
    /\ assembly' = [assembly EXCEPT ![r].pc = "loop",
                                    ![r].tracker = NewTracker(<<>>),
                                    ![r].used_texts = {},
                                    ![r].blocks = <<>>]

\* call r runs one pass of its loop
LoopStep(r) ==
    /\ assembly[r].pc = "loop"
    /\ Len(assembly[r].blocks) < 2 * NumGroups
    /\ \E text \in PickText(ResolveMainTopic(assembly[r].topic_id), assembly[r].strategy,
                            assembly[r].used_texts),
          shuffled \in Shuffles(IF assembly[r].tracker.queue = <<>>
                                THEN assembly[r].tracker.types ELSE <<>>) :
          assembly' = LoopPass(assembly, r, text, shuffled)

\* call r leaves its loop, chooses its suggestions and returns
FinishAssembly(r) ==
    /\ assembly[r].pc = "loop"
    /\ Len(assembly[r].blocks) = 2 * NumGroups
    /\ \E nodes \in NextNodeOutcomes(ResolveMainTopic(assembly[r].topic_id),
                                    assembly[r].strategy, {}) :
          assembly' = [assembly EXCEPT ![r].pc = "done", ![r].next_nodes = nodes]

ConcurrentNext ==
    /\ \E r \in Requests : StartAssembly(r) \/ LoopStep(r) \/ FinishAssembly(r)
    /\ UNCHANGED <<trackerVars, scoreVars, requestVars, responseVars, validateVars,
                   raised, pc>>

SpecConcurrent == ConcurrentInit /\ [][ConcurrentNext]_vars

\* the kinds of the media blocks of a block list, in order
MediaKinds(blocks) == [i \in 1..(Len(blocks) \div 2) |-> blocks[2 * i].type]

\* the tracker and the kinds emitted after n passes of a call that runs alone
RECURSIVE AloneRuns(_)
AloneRuns(n) ==
    IF n = 0 THEN {[tracker |-> NewTracker(<<>>), media_types |-> <<>>]}
    ELSE UNION {{LET res == NextTypeOf(run.tracker, shuffled)
                 IN  [tracker |-> res.tracker,
                      media_types |-> Append(run.media_types, res.media_type)]
                 : shuffled \in Shuffles(IF run.tracker.queue = <<>>
                                         THEN run.tracker.types ELSE <<>>)}
                : run \in AloneRuns(n - 1)}

\* C19: in every interleaving of two concurrent assembly calls, the kinds
\* each call has emitted and the queue and last kind of its tracker are
\* those of a call that runs alone
C19_TrackerLocalToCall ==
    \A r \in Requests :
        assembly[r].pc # "idle" =>
            [tracker |-> assembly[r].tracker,
             media_types |-> MediaKinds(assembly[r].blocks)]
                \in AloneRuns(Len(assembly[r].blocks) \div 2)

\* the second call has started and emitted its first kind while the first
\* call is two passes into its loop, and each has the kinds of a call alone
C19_Witness ==
    /\ assembly[1].pc = "loop"
    /\ assembly[2].pc = "loop"
    /\ MediaKinds(assembly[1].blocks) = <<"unsplash", "wikipedia_image">>
    /\ MediaKinds(assembly[2].blocks) = <<"unsplash">>
    /\ assembly[1].tracker.last = "wikipedia_image"
    /\ assembly[2].tracker.last = "unsplash"

-----------------------------------------------------------------------------
(* The fallback of the mock path over the strategies. *)

\* the unvisited nodes of the subtopic list of the call's main topic for a
\* strategy, in the order of the list
UnvisitedNodes(strat) ==
    GetSubtopicNodes(ResolveMainTopic(topic_id), strat, visited_nodes)

\* nodes are drawn from the list l under the limit of three
LimitedFrom(nodes, l) ==
    IF Len(l) > 3 THEN Len(nodes) = 3 /\ Range(nodes) \subseteq Range(l) ELSE nodes = l

\* C21: when every node of the active strategy's list is visited, the mock
\* path suggests the unvisited nodes of the first of deeper, branch, pivot
\* that has any; when none has, it suggests nothing and still returns its
\* blocks
C21_FallbackInFixedOrder ==
    (pc = "mock_done" /\ UnvisitedNodes(strategy) = <<>>) =>
        /\ Len(content_blocks) = 2 * NumGroups
        /\ IF UnvisitedNodes("deeper") # <<>>
           THEN LimitedFrom(next_nodes, UnvisitedNodes("deeper"))
           ELSE IF UnvisitedNodes("branch") # <<>>
           THEN LimitedFrom(next_nodes, UnvisitedNodes("branch"))
           ELSE next_nodes = UnvisitedNodes("pivot")

\* a call for crispr-gene-editing under pivot whose pivot and deeper lists
\* are visited: the suggestions are three nodes of the branch list
C21_Witness ==
    /\ pc = "mock_done"
    /\ topic_id = "crispr-gene-editing"
    /\ strategy = "pivot"
    /\ visited_nodes = {"prime-editing", "neural-networks", "quantum-mechanics"}
    /\ UnvisitedNodes("pivot") = <<>>
    /\ UnvisitedNodes("deeper") = <<>>
    /\ Len(next_nodes) = 3
    /\ NodeIds(next_nodes) \subseteq Range(GetSubtopics("crispr-gene-editing", "branch"))

-----------------------------------------------------------------------------
(* The texts of one response. *)

\* the contents of the text blocks of the response, in order
Texts == [i \in 1..(Len(content_blocks) \div 2) |-> content_blocks[2 * i - 1].content]

\* the pool the texts of the call are picked from: the pool of the main
\* topic and strategy, the generic pool of the strategy when there is none
ApplicablePool ==
    LET specific == TOPIC_POOLS(ResolveMainTopic(topic_id), strategy)
    IN  IF specific # <<>> THEN Range(specific)
        ELSE {Format(GENERIC_POOL(strategy)[i], LabelOf(ResolveMainTopic(topic_id)))
              : i \in 1..Len(GENERIC_POOL(strategy))}

\* C22: in one response the first min(P, G) texts are pairwise distinct, P
\* the size of the pool and G the number of groups, and a text repeats an
\* earlier one only when every paragraph of the pool was picked before it
C22_NoRepeatBeforeExhaustion ==
    pc = "mock_done" =>
        /\ \A i, j \in 1..Min(Cardinality(ApplicablePool), Len(Texts)) :
              i # j => Texts[i] # Texts[j]
        /\ \A i, j \in 1..Len(Texts) :
              (i < j /\ Texts[i] = Texts[j]) =>
                  {Texts[k] : k \in 1..(j - 1)} = ApplicablePool

\* a call whose pool holds more paragraphs than one and whose texts differ
C22_Witness ==
    /\ pc = "mock_done"
    /\ topic_id = "black-holes"
    /\ strategy = "pivot"
    /\ Cardinality(ApplicablePool) = 2
    /\ Len(Texts) >= 2
    /\ Texts[1] # Texts[2]

\* the pool TOPIC_POOLS holds for the main topic and strategy of the call
SpecificPool == Range(TOPIC_POOLS(ResolveMainTopic(topic_id), strategy))

\* every paragraph of the specific pool was picked before the k-th text
SpecificExhaustedBefore(k) == SpecificPool \subseteq {Texts[i] : i \in 1..(k - 1)}

\* C23: a text is a paragraph of the generic pool when the topic is unknown
\* and when every paragraph of the specific pool was used earlier in the
\* response
C23_GenericWhenExhausted ==
    pc = "mock_done" =>
        \A k \in 1..Len(Texts) :
            (UnknownTopic(topic_id) \/ SpecificExhaustedBefore(k)) =>
                Texts[k].src = "generic"

\* the one paragraph of the pivot pool of crispr-gene-editing was used by
\* the first group, and the second group has it again
C23_SpecificRepeated ==
    /\ pc = "mock_done"
    /\ topic_id = "crispr-gene-editing"
    /\ strategy = "pivot"
    /\ SpecificPool = {Texts[1]}
    /\ Texts[2] = Texts[1]
    /\ Texts[2].src = "topic"

-----------------------------------------------------------------------------
(* The pairs of one response. *)

\* the text block and the media block of the g-th pair
PairText(g) == content_blocks[2 * g - 1]

PairMedia(g) == content_blocks[2 * g]

\* the g-th pair is a text block followed by a media block under one group
\* id, with the roles of the media kind
PairWellFormed(g) ==
    /\ PairText(g).type = "text"
    /\ PairMedia(g).type \in Range(MEDIA_TYPES)
    /\ PairText(g).group_id = PairMedia(g).group_id
    /\ PairText(g).group_role = TextRoleForMedia(PairMedia(g).type)
    /\ PairMedia(g).group_role = MediaRoleForType(PairMedia(g).type)

\* C24: a response of G groups holds 2 * G blocks in G pairs, each a text
\* block followed by a media block that share a group id no other pair has
\* and carry the roles of the pair's media kind
C24_PairsUnderOwnGroupId ==
    pc = "mock_done" =>
        /\ Len(content_blocks) = 2 * NumGroups
        /\ \A g \in 1..NumGroups : PairWellFormed(g)
        /\ \A g, h \in 1..NumGroups :
              g # h => PairText(g).group_id # PairText(h).group_id

\* two pairs of one response, each well formed, have the same group id
C24_GroupIdShared ==
    /\ pc = "mock_done"
    /\ Len(content_blocks) = 2 * NumGroups
    /\ \A g \in 1..NumGroups : PairWellFormed(g)
    /\ PairText(1).group_id = PairText(2).group_id

-----------------------------------------------------------------------------
(* The blocks a plan's groups give. *)

\* the group's text / media request is not null
TextNonNull(group_data) == "text" \in group_data.keys /\ group_data.text # None

RequestNonNull(group_data) == "media_request" \in group_data.keys

\* the number of blocks of the first k groups when group i has n[i] blocks
RECURSIVE BlocksUpTo(_, _)
BlocksUpTo(n, k) == IF k = 0 THEN 0 ELSE BlocksUpTo(n, k - 1) + n[k]

\* the blocks of group k when group i has n[i] blocks
BlocksOf(n, k) == SubSeq(content_blocks, BlocksUpTo(n, k - 1) + 1, BlocksUpTo(n, k))

IsMediaBlock(block) == "media" \in block.keys

\* seg holds blocks of the group only: at most its text block, then at most
\* its media block with a media payload, under one group id
BlocksOfGroup(group_data, seg) ==
    /\ Len(seg) <= 2
    /\ \A i \in 1..Len(seg) :
          IF IsMediaBlock(seg[i])
          THEN /\ i = Len(seg)
               /\ RequestNonNull(group_data)
               /\ seg[i].type = RequestedType(group_data)
               /\ seg[i].media.isdict
          ELSE /\ i = 1
               /\ TextNonNull(group_data)
               /\ seg[i].type = "text"
               /\ seg[i].content = PlanText(group_data.text)
    /\ \A i, j \in 1..Len(seg) : seg[i].group_id = seg[j].group_id

\* the number of blocks the loop gives for a group
EmittedCount(group_data) ==
    (IF HasText(group_data) THEN 1 ELSE 0) + (IF HasRequest(group_data) THEN 1 ELSE 0)

\* C25 as stated: the blocks of an executed plan are, group after group in
\* plan order, a text block only where the text is non-null and a media
\* block with a non-null payload only where the media request is non-null,
\* under one group id, and a group with exactly one of the two non-null has
\* exactly one block
C25_OneBlockPerNonNullPart ==
    PlanExecuted =>
        LET groups == plan.groups.items
        IN  \E n \in [1..Len(groups) -> 0..2] :
               /\ Len(content_blocks) = BlocksUpTo(n, Len(groups))
               /\ \A k \in 1..Len(groups) :
                     /\ BlocksOfGroup(groups[k], BlocksOf(n, k))
                     /\ (TextNonNull(groups[k]) # RequestNonNull(groups[k])) => n[k] = 1

\* C25: the blocks of an executed plan are, group after group in plan
\* order, a text block exactly where the text is neither null nor empty and
\* a media block with a non-null payload exactly where the media request is
\* neither null nor empty, under one group id
C25_BlocksOfNonEmptyParts ==
    PlanExecuted =>
        LET groups == plan.groups.items
            n == [k \in 1..Len(groups) |-> EmittedCount(groups[k])]
        IN  /\ Len(content_blocks) = BlocksUpTo(n, Len(groups))
            /\ \A k \in 1..Len(groups) :
                  LET seg == BlocksOf(n, k)
                  IN  /\ BlocksOfGroup(groups[k], seg)
                      /\ HasText(groups[k]) => ~IsMediaBlock(seg[1])
                      /\ HasRequest(groups[k]) => IsMediaBlock(seg[Len(seg)])

\* a plan whose first group has the empty text and no media request was
\* executed: the blocks are the two of the second group
C25_Witness ==
    /\ PlanExecuted
    /\ plan.groups.items = <<BlankGroup, GoodGroup>>
    /\ Len(content_blocks) = 2
    /\ content_blocks[1].content = PlanText(GoodGroup.text)
    /\ IsMediaBlock(content_blocks[2])
    /\ content_blocks[1].group_id = content_blocks[2].group_id

-----------------------------------------------------------------------------
(* The suggestions taken from a plan. *)

\* the ids the plan proposes
Proposed == IF "next_nodes" \in plan.keys THEN plan.next_nodes ELSE <<>>

\* a proposed id passes: it is not visited and the graph has it
Passes(nid) == nid \notin visited_nodes /\ HasNode(nid)

\* f maps the places of next_nodes to places of the proposed list
\* in rising order, onto the places of the ids that pass
PlacesOfPassing(f) ==
    /\ \A i, j \in DOMAIN f : i < j => f[i] < f[j]
    /\ {f[i] : i \in DOMAIN f} = {k \in 1..Len(Proposed) : Passes(Proposed[k])}
    /\ \A i \in DOMAIN f : next_nodes[i] = NodeOf(Proposed[f[i]])

\* C26: when some proposed id passes, the suggestions of an executed plan
\* are the proposed ids that are not visited and that the graph has, each
\* with its label, in the order of the proposal; the others are dropped
C26_ProposedFilteredInOrder ==
    (PlanExecuted /\ \E k \in 1..Len(Proposed) : Passes(Proposed[k])) =>
        /\ \A i \in 1..Len(next_nodes) : Passes(next_nodes[i].id)
        /\ \E f \in [1..Len(next_nodes) -> 1..Len(Proposed)] : PlacesOfPassing(f)

\* of a proposal of a visited node, an unknown id and two unvisited nodes,
\* the two unvisited nodes are suggested in the order proposed
C26_Witness ==
    /\ PlanExecuted
    /\ Proposed = <<"black-holes", "no-such-node", "event-horizon", "neutron-stars">>
    /\ visited_nodes = {"black-holes", "hawking-radiation"}
    /\ NodeIds(next_nodes) = {"event-horizon", "neutron-stars"}
    /\ next_nodes[1].id = "event-horizon"
    /\ next_nodes[2].id = "neutron-stars"

-----------------------------------------------------------------------------
(* The live suggestions when the plan proposes nothing usable. *)

\* an executed plan proposes no id that passes
NothingProposedPasses ==
    PlanExecuted /\ \A k \in 1..Len(Proposed) : ~Passes(Proposed[k])

\* the list the mock path's suggestion logic limits: the unvisited nodes of
\* the active strategy, else those of the first of deeper, branch, pivot
\* that has any
MockSuggestionList ==
    IF UnvisitedNodes(strategy) # <<>> THEN UnvisitedNodes(strategy)
    ELSE IF UnvisitedNodes("deeper") # <<>> THEN UnvisitedNodes("deeper")
    ELSE IF UnvisitedNodes("branch") # <<>> THEN UnvisitedNodes("branch")
    ELSE UnvisitedNodes("pivot")

\* C27: when no proposed id passes, the suggestions of the live path are
\* what the mock path's suggestion logic gives for the topic, the strategy
\* and the visited set: the unvisited subtopics of the active strategy, else
\* those of the first non-empty strategy of deeper, branch, pivot, limited
\* to three
C27_LiveFallbackAsMock ==
    NothingProposedPasses => LimitedFrom(next_nodes, MockSuggestionList)

\* no proposed id passes, every node of the active strategy is visited,
\* another strategy has an unvisited node, and the live path suggests nothing
C27_NoFallbackOverStrategies ==
    /\ NothingProposedPasses
    /\ UnvisitedNodes(strategy) = <<>>
    /\ MockSuggestionList # <<>>
    /\ next_nodes = <<>>

-----------------------------------------------------------------------------
(* The end of every next_type() call. *)

\* C28: every next_type() call returns: the loop makes no more passes than
\* kinds are configured, every call that has popped a kind comes to its
\* return, and a tracker of exactly one configured kind returns that kind
\* at every call
C28_NextTypeTerminates ==
    /\ [](attempts <= Len(tracker.types))
    /\ [](Len(tracker.types) = 1 =>
            /\ attempts = 0
            /\ \A i \in 1..Len(out) : out[i] = tracker.types[1])
    /\ (pc = "loop") ~> (pc = "idle")

\* a tracker of one kind has returned that kind at two calls in a row
C28_Witness ==
    /\ Len(tracker.types) = 1
    /\ pc = "idle"
    /\ Len(out) >= 2
    /\ out[1] = tracker.types[1]
    /\ out[2] = out[1]

-----------------------------------------------------------------------------
(* The strategy and the score of one generate response. *)

\* the strategy of the band the score (in ten-thousandths) lies in
BandOf(score) ==
    CASE score >= 6500 -> "deeper"
      [] score < 3500  -> "pivot"
      [] OTHER         -> "branch"

\* C29: whatever the request before it was answered with, the response of
\* a generate request carries as strategy_used the strategy of the band its
\* own engagement_score lies in: deeper from 0.65 up, pivot below 0.35,
\* branch between
C29_StrategyOfReturnedScore ==
    [][(pc' = "generate_done" /\ raised' = "none") =>
           validated'.strategy_used = BandOf(validated'.engagement_score.v)]_vars

\* a response with the score 0.65 and the strategy deeper, to a request
\* that is not the first of its session
C29_Witness ==
    /\ pc = "generate_done"
    /\ raised = "none"
    /\ Cardinality(visited_nodes) >= 5
    /\ validated.engagement_score.v = 6500
    /\ validated.engagement_score.repr = "0.65"
    /\ validated.strategy_used = "deeper"

-----------------------------------------------------------------------------
(* The graph of an initial response. *)

\* an initial request was answered with a result
InitialAnswered == pc \in {"initial_done", "initial_live_done"} /\ raised = "none"

\* the places of graph.nodes that hold the id / of graph.edges that point at it
EntriesOf(id) == {i \in 1..Len(graph.nodes) : graph.nodes[i].id = id}

EdgesTo(id) == {j \in 1..Len(graph.edges) : graph.edges[j].target = id}

\* C30: in every initial response graph.nodes starts with the node of the
\* topic, every edge leads from the topic to a node listed in graph.nodes,
\* and the edges are one for each entry of graph.nodes that is not the topic
C30_GraphRootedAtTopic ==
    InitialAnswered =>
        /\ Len(graph.nodes) >= 1
        /\ graph.nodes[1].id = topic_id
        /\ \A j \in 1..Len(graph.edges) :
              /\ graph.edges[j].source = topic_id
              /\ graph.edges[j].target \in NodeIds(graph.nodes)
        /\ EdgesTo(topic_id) = {}
        /\ \A i \in 1..Len(graph.nodes) :
              graph.nodes[i].id # topic_id =>
                  Cardinality(EdgesTo(graph.nodes[i].id))
                      = Cardinality(EntriesOf(graph.nodes[i].id))

\* the mock path answered the initial request for a subtopic with a graph
\* that lists the topic a second time and has an edge from the topic to
\* itself
C30_TopicSuggestedToItself ==
    /\ pc = "initial_done"
    /\ raised = "none"
    /\ topic_id = "hawking-radiation"
    /\ graph.nodes[1].id = topic_id
    /\ Cardinality(EntriesOf(topic_id)) = 2
    /\ Cardinality(EdgesTo(topic_id)) = 1

====
